---- MODULE Spec2Model ----
(***************************************************************************)
(* A model of the Hacker News reader's ingestion core:                     *)
(*   - StoriesCache (src/src/models.rs): the TTL-gated listing slot and    *)
(*     the per-thread comment map;                                         *)
(*   - HackerNewsClient (src/src/hn_client.rs): the cache-or-fetch calls   *)
(*     executed by background threads that share one Arc<Mutex<cache>>;    *)
(*   - parse_comments' tree builder (build_comments_tree and               *)
(*     find_children_recursive).                                           *)
(* Sequences are 1-based here; the Rust indices are 0-based.               *)
(***************************************************************************)
EXTENDS Integers, Sequences, FiniteSets, TLC

VARIABLES
    cache,          \* StoriesCache behind Arc<Mutex<..>>: stories, timestamp, comments_cache
    lock,           \* the holder of the cache mutex, or NoUnit
    now,            \* the monotonic clock (Instant::now()), in seconds
    pc,             \* per background thread: its position in the client call
    call,           \* per background thread: the client method it runs and its arguments
    response,       \* per background thread: the local `response` of its last GET
    fetched,        \* per background thread: the local `stories` / `comments` it parsed
    requests,       \* per background thread: the endpoints it has requested in this call
    result,         \* per background thread: what the call returned
    comment_list,   \* parse_comments: the flat (level, comment) list
    tree,           \* parse_comments: the tree returned by build_comments_tree
    built,          \* parse_comments: whether build_comments_tree has run
    spawned,        \* the number of threads spawned so far
    rows,           \* parse_comments: the comment rows (.comtr) of the page being parsed
    listing,        \* parse_stories: the listing markup being parsed
    parsed_stories, \* parse_stories: the records returned
    parse_state,    \* parse_stories: "no" (not called), "ok" (returned) or "panic"
    hn_client,      \* the app's HackerNewsClient: its next_page_params
    client,         \* the clone a background thread fetches with: its next_page_params
    sent,           \* the listing requests sent so far: tab, page, URL and the
                    \* pair extracted from the response, if any
    app,            \* HackerNewsReaderApp: the fields the loading logic reads and writes
    bg,             \* per background thread slot: its request, its channel, its state
    dispatched,     \* the number of background threads the app has spawned
    view            \* HackerNewsReaderApp: the fields of the comments view and its pages

vars == <<cache, lock, now, pc, call, response, fetched, requests, result,
          comment_list, tree, built, spawned, rows,
          listing, parsed_stories, parse_state,
          hn_client, client, sent, app, bg, dispatched, view>>

cacheVars == <<cache, lock, now, pc, call, response, fetched, requests, result, spawned>>
treeVars == <<comment_list, tree, built>>
listingVars == <<listing, parsed_stories, parse_state>>
pageVars == <<rows, listingVars>>
cursorVars == <<hn_client, client, sent>>
appVars == <<app, bg, dispatched>>
viewVars == <<view>>
\* What the client's threads, and what the tree builder's steps, leave alone.
notCacheVars == <<treeVars, pageVars, cursorVars, appVars, viewVars>>
notTreeVars == <<cacheVars, pageVars, cursorVars, appVars, viewVars>>
\* What the parsers, what the listing requests, and what the app, leave alone.
notPageVars == <<cacheVars, treeVars, cursorVars, appVars, viewVars>>
notCursorVars == <<cacheVars, treeVars, pageVars, appVars, viewVars>>
notAppVars == <<cacheVars, treeVars, pageVars, cursorVars, viewVars>>
notViewVars == <<cacheVars, treeVars, pageVars, cursorVars, appVars>>

-----------------------------------------------------------------------------
(* Bounds of the model.                                                    *)

\* The clock advances in steps of TickSecs seconds, up to MaxTime.
TickSecs == 150
MaxTime == 300
\* The flat comment list has at most MaxLen rows, with levels in MinLevel..MaxLevel.
\* At most MaxCalls threads are spawned in a run.
MaxCalls == 3
\* The runs checked for liveness spawn at most MaxFairCalls threads.
MaxFairCalls == 2
MaxLen == 5
MaxLevel == 3
\* A detail page has at most MaxRows comment rows, with ids in CommentIds.
MaxRows == 3
\* A listing page has at most MaxStoryRows item rows, with ids in StoryIds.
MaxStoryRows == 2
\* At most MaxFetches listing requests are sent, for pages 1..MaxPage.
MaxFetches == 3
MaxPage == 3
\* The app spawns at most MaxDispatch background threads; a listing page has
\* ItemsPerPage items.
MaxDispatch == 3
ItemsPerPage == 1
\* A thread has at most MaxThreadSize top-level comments.
MaxThreadSize == 41

MinLevel == 0 - 1

Units == {"u1", "u2"}
NoUnit == "none"
Tabs == {"hot", "new"}
Pages == {1, 2}
ItemIds == {"a", "b"}
CommentIds == {"c1", "c2"}
StoryIds == {"s1", "s2"}

(* Program constants.                                                      *)
\* cache_ttl_secs: 300, set in HackerNewsClient::new and copied by clone.
CacheTtlSecs == 300
\* MAX_PAGES in load_more_stories.
MaxPages == 5
\* comments_per_page: 20, set in HackerNewsReaderApp::new.
CommentsPerPage == 20

-----------------------------------------------------------------------------
(* models.rs: StoriesCache                                                 *)

\* StoriesCache::new: no stories, timestamp = now, empty comments map.
NewStoriesCache(t) ==
    [stories |-> <<>>, timestamp |-> t, comments_cache |-> [k \in {} |-> <<>>]]

\* Instant::elapsed().as_secs() of a timestamp taken at ts, read at time t.
Elapsed(ts, t) == t - ts

IsStoriesCacheValid_Inclusive(c, t, ttl_secs) ==
    IF c.stories = <<>> THEN FALSE
    ELSE Elapsed(c.timestamp, t) <= ttl_secs

\* StoriesCache::is_stories_cache_valid
IsStoriesCacheValid(c, t, ttl_secs) ==
    IF c.stories = <<>> THEN FALSE
    ELSE Elapsed(c.timestamp, t) < ttl_secs

IsCommentsCacheValid_OwnCache(c, story_id, t, ttl_secs) ==
    story_id \in DOMAIN NewStoriesCache(t).comments_cache

\* StoriesCache::is_comments_cache_valid
IsCommentsCacheValid(c, story_id, t, ttl_secs) ==
    IF story_id \in DOMAIN c.comments_cache
    THEN Elapsed(c.comments_cache[story_id].timestamp, t) < ttl_secs
    ELSE FALSE

\* StoriesCache::update_stories
UpdateStories(c, stories, t) ==
    [c EXCEPT !.stories = stories, !.timestamp = t]

UpdateComments_ClearOthers(c, story_id, comments, t) ==
    [c EXCEPT !.comments_cache =
        [k \in {story_id} |-> [comments |-> comments, timestamp |-> t]]]

UpdateComments_EvictExpired(c, story_id, comments, t) ==
    [c EXCEPT !.comments_cache =
        [k \in {k \in DOMAIN c.comments_cache :
                    t - c.comments_cache[k].timestamp < CacheTtlSecs}
                \cup {story_id} |->
            IF k = story_id
            THEN [comments |-> comments, timestamp |-> t]
            ELSE c.comments_cache[k]]]

\* StoriesCache::update_comments: HashMap::insert of (comments, Instant::now()).
UpdateComments(c, story_id, comments, t) ==
    [c EXCEPT !.comments_cache =
        [k \in (DOMAIN c.comments_cache) \cup {story_id} |->
            IF k = story_id
            THEN [comments |-> comments, timestamp |-> t]
            ELSE c.comments_cache[k]]]

\* StoriesCache::get_cached_comments (Some(..) is only read after a validity check).
GetCachedComments(c, story_id) == c.comments_cache[story_id].comments

-----------------------------------------------------------------------------
(* hn_client.rs: parse_comments' tree builder                              *)

\* A HackerNewsComment as parse_comments pushes it: children: Vec::new().
Comment(id, level) == [id |-> id, level |-> level, children |-> <<>>]

RECURSIVE FindChildrenRecursive(_, _, _, _)
RECURSIVE FindChildrenLoop(_, _, _, _, _)

FindChildrenLoop_NoBreak(comments, i, parent_level, children, used) ==
    IF i > Len(comments) THEN [children |-> children, used |-> used]
    ELSE IF i \in used
    THEN FindChildrenLoop(comments, i + 1, parent_level, children, used)
    ELSE IF comments[i][1] = parent_level + 1
    THEN LET sub == FindChildrenRecursive(comments, i, comments[i][1], used \cup {i})
             child == [comments[i][2] EXCEPT !.children = sub.children]
         IN  FindChildrenLoop(comments, i + 1, parent_level,
                              Append(children, child), sub.used)
    ELSE FindChildrenLoop(comments, i + 1, parent_level, children, used)

FindChildrenLoop_AnyDeeper(comments, i, parent_level, children, used) ==
    IF i > Len(comments) THEN [children |-> children, used |-> used]
    ELSE IF i \in used
    THEN FindChildrenLoop(comments, i + 1, parent_level, children, used)
    ELSE IF comments[i][1] <= parent_level
    THEN [children |-> children, used |-> used]
    ELSE LET sub == FindChildrenRecursive(comments, i, comments[i][1], used \cup {i})
             child == [comments[i][2] EXCEPT !.children = sub.children]
         IN  FindChildrenLoop(comments, i + 1, parent_level,
                              Append(children, child), sub.used)

FindChildrenLoop_Unmarked(comments, i, parent_level, children, used) ==
    IF i > Len(comments) THEN [children |-> children, used |-> used]
    ELSE IF comments[i][1] = parent_level + 1
    THEN LET sub == FindChildrenRecursive(comments, i, comments[i][1], used)
             child == [comments[i][2] EXCEPT !.children = sub.children]
         IN  FindChildrenLoop(comments, i + 1, parent_level,
                              Append(children, child), sub.used)
    ELSE FindChildrenLoop(comments, i + 1, parent_level, children, used)

\* find_children_recursive, the body of `for i in (parent_idx + 1)..comments.len()`
\* from position i on: skip a used index, break at level <= parent_level, attach
\* (and recurse into) a node exactly one level deeper, pass over a deeper one.
FindChildrenLoop(comments, i, parent_level, children, used) ==
    IF i > Len(comments) THEN [children |-> children, used |-> used]
    ELSE IF i \in used
    THEN FindChildrenLoop(comments, i + 1, parent_level, children, used)
    ELSE IF comments[i][1] <= parent_level
    THEN [children |-> children, used |-> used]
    ELSE IF comments[i][1] = parent_level + 1
    THEN LET sub == FindChildrenRecursive(comments, i, comments[i][1], used \cup {i})
             child == [comments[i][2] EXCEPT !.children = sub.children]
         IN  FindChildrenLoop(comments, i + 1, parent_level,
                              Append(children, child), sub.used)
    ELSE FindChildrenLoop(comments, i + 1, parent_level, children, used)

\* find_children_recursive: the children of the node at parent_idx and the
\* used_indices set after the call (the &mut HashSet).
FindChildrenRecursive(comments, parent_idx, parent_level, used_indices) ==
    FindChildrenLoop(comments, parent_idx + 1, parent_level, <<>>, used_indices)

RECURSIVE BuildTopLevel(_, _, _, _)

BuildTopLevel_LevelOfFirst(comments, i, res, used) ==
    IF i > Len(comments) THEN res
    ELSE IF comments[i][1] = comments[1][1] /\ i \notin used
    THEN LET sub == FindChildrenRecursive(comments, i, comments[i][1], used \cup {i})
             top_comment == [comments[i][2] EXCEPT !.children = sub.children]
         IN  BuildTopLevel(comments, i + 1, Append(res, top_comment), sub.used)
    ELSE BuildTopLevel(comments, i + 1, res, used)

\* build_comments_tree, the body of `for (i, (level, comment)) in comments.iter()`
\* from position i on.
BuildTopLevel(comments, i, res, used) ==
    IF i > Len(comments) THEN res
    ELSE IF comments[i][1] = 0 /\ i \notin used
    THEN LET sub == FindChildrenRecursive(comments, i, comments[i][1], used \cup {i})
             top_comment == [comments[i][2] EXCEPT !.children = sub.children]
         IN  BuildTopLevel(comments, i + 1, Append(res, top_comment), sub.used)
    ELSE BuildTopLevel(comments, i + 1, res, used)

\* build_comments_tree
BuildCommentsTree(comments) ==
    IF comments = <<>> THEN <<>>
    ELSE BuildTopLevel(comments, 1, <<>>, {})

-----------------------------------------------------------------------------
(* hn_client.rs: what the network returns and how it is parsed             *)

\* Listing markup, as the sequence of ids of its item rows (.athing).
ListingBodies == {<<>>, <<"s1", "s2">>}
\* Detail-page markup, as the sequence of its comment rows (.comtr): id and indent.
ThreadBodies == {<<>>, <<[id |-> "c1", indent |-> 0], [id |-> "c2", indent |-> 1]>>}

\* `self.client.get(&url).send()?` then `response.text()?`: either the request
\* fails (timeout, connection error: sent = FALSE) or a response arrives with a
\* status and a body.  The status is never inspected (no error_for_status), so a
\* non-success response is read like any other; its body is an error page with
\* no item or comment rows.
SendFailed == [sent |-> FALSE, status |-> 0, body |-> <<>>]
NoResponse == [sent |-> FALSE, status |-> 0 - 1, body |-> <<>>]
Responses(bodies) ==
    {SendFailed}
    \cup {[sent |-> TRUE, status |-> 200, body |-> b] : b \in bodies}
    \cup {[sent |-> TRUE, status |-> 503, body |-> <<>>]}

\* parse_stories, as far as the cache is concerned: one record per item row, in
\* document order, original_index = i (0-based).
ParseStories(html) ==
    [i \in 1..Len(html) |-> [id |-> html[i], original_index |-> i - 1]]

RECURSIVE ParseCommentRows_NoDedup(_, _, _, _)
ParseCommentRows_NoDedup(rs, i, processed_ids, list) ==
    IF i > Len(rs) THEN list
    ELSE ParseCommentRows_NoDedup(rs, i + 1, processed_ids,
                                  Append(list, <<rs[i].indent,
                                                 Comment(rs[i].id, rs[i].indent)>>))

RECURSIVE ParseCommentRows(_, _, _, _)
\* parse_comments, the loop over the comment rows: a row whose id was already
\* processed is skipped, the others are pushed with their level.
ParseCommentRows(rs, i, processed_ids, list) ==
    IF i > Len(rs) THEN list
    ELSE IF rs[i].id \in processed_ids
    THEN ParseCommentRows(rs, i + 1, processed_ids, list)
    ELSE ParseCommentRows(rs, i + 1, processed_ids \cup {rs[i].id},
                          Append(list, <<rs[i].indent,
                                         Comment(rs[i].id, rs[i].indent)>>))

\* parse_comments
ParseComments(html) == BuildCommentsTree(ParseCommentRows(html, 1, {}, <<>>))

-----------------------------------------------------------------------------
(* hn_client.rs: parse_stories on the markup of a listing page             *)

\* The inner_html of an element is a text: a sequence of lexemes, each a maximal
\* run of digits, a maximal run of letters, a run of whitespace (" ") or the
\* entity "&nbsp;" (how the serializer writes a no-break space).  A selector's
\* matches are a sequence; `.next()` is its first element, if any.
DigitLexemes == {"1", "3", "4", "5", "7", "10", "12", "99999999999"}

\* The value of a run of digits that fits an i32.
DigitValue ==
    [d \in DigitLexemes \ {"99999999999"} |->
        CASE d = "1" -> 1 [] d = "3" -> 3 [] d = "4" -> 4 [] d = "5" -> 5
          [] d = "7" -> 7 [] d = "10" -> 10 [] d = "12" -> 12]

\* str::parse::<i32>() on a token (the concatenation of its lexemes): Ok for a
\* single run of digits that fits, Err otherwise (<<>>).
ParseI32(token) ==
    IF Len(token) = 1 /\ token[1] \in DOMAIN DigitValue
    THEN <<DigitValue[token[1]]>>
    ELSE <<>>

\* The letter runs that contain the needle.
WordsContaining(needle) ==
    CASE needle = "comment" -> {"comment", "comments", "commenter"}
      [] needle = "discuss" -> {"discuss"}

\* str::contains on a text, for a needle made of letters.
Contains(text, needle) ==
    \E k \in 1..Len(text) : text[k] \in WordsContaining(needle)

\* text.split_whitespace().next(): the first maximal run of non-whitespace.
FirstToken(text) ==
    LET starts == {k \in 1..Len(text) : text[k] # " "}
    IN  IF starts = {} THEN <<>>
        ELSE LET a == CHOOSE k \in starts : \A j \in starts : k <= j
                 b == CHOOSE k \in a..Len(text) :
                         /\ \A j \in a..k : text[j] # " "
                         /\ k = Len(text) \/ text[k + 1] = " "
             IN  <<SubSeq(text, a, b)>>

\* regex (\d+)(?:&nbsp;|\s+)comments: group 1 of the leftmost match.
CommentsRegexCapture(text) ==
    LET matches == {k \in 1..(Len(text) - 2) :
                        /\ text[k] \in DigitLexemes
                        /\ text[k + 1] \in {"&nbsp;", " "}
                        /\ text[k + 2] = "comments"}
    IN  IF matches = {} THEN <<>>
        ELSE <<<<text[CHOOSE k \in matches : \A j \in matches : k <= j]>>>>

\* html_escape::decode_html_entities: the entity becomes the character.
DecodeHtmlEntities(text) ==
    [k \in 1..Len(text) |-> IF text[k] = "&nbsp;" THEN "U+00A0" ELSE text[k]]

CommentsCountOfLink_RegexFirst(link_text) ==
    IF CommentsRegexCapture(link_text) # <<>>
          /\ ParseI32(CommentsRegexCapture(link_text)[1]) # <<>>
    THEN ParseI32(CommentsRegexCapture(link_text)[1])[1]
    ELSE IF Contains(link_text, "discuss") THEN 0
    ELSE IF FirstToken(link_text) # <<>> /\ ParseI32(FirstToken(link_text)[1]) # <<>>
    THEN ParseI32(FirstToken(link_text)[1])[1]
    ELSE 0

\* Lines 399-423: the count read from the link that mentions comments.
CommentsCountOfLink(link_text) ==
    IF Contains(link_text, "discuss") THEN 0
    ELSE IF CommentsRegexCapture(link_text) # <<>>
          /\ ParseI32(CommentsRegexCapture(link_text)[1]) # <<>>
    THEN ParseI32(CommentsRegexCapture(link_text)[1])[1]
    ELSE IF FirstToken(link_text) # <<>> /\ ParseI32(FirstToken(link_text)[1]) # <<>>
    THEN ParseI32(FirstToken(link_text)[1])[1]
    ELSE 0

\* Lines 391-428: comments_count.  The first `a` of the subtext whose text
\* contains "comment" or "discuss" decides; 0 without one or without a subtext.
CommentsCount(subtext) ==
    IF subtext = <<>> THEN 0
    ELSE LET links == subtext[1].links
             hits == {k \in 1..Len(links) :
                         Contains(links[k], "comment") \/ Contains(links[k], "discuss")}
         IN  IF hits = {} THEN 0
             ELSE CommentsCountOfLink(links[CHOOSE k \in hits : \A j \in hits : k <= j])

\* Lines 351-356: by, the inner_html of the first .hnuser, "" by default.
By(subtext) ==
    IF subtext = <<>> \/ subtext[1].hnuser = <<>> THEN <<>> ELSE subtext[1].hnuser[1]

\* Lines 358-365: score, the first token of the .score text parsed as i32, else 0.
Score(subtext) ==
    IF subtext = <<>> \/ subtext[1].score = <<>> THEN 0
    ELSE LET token == FirstToken(subtext[1].score[1])
         IN  IF token # <<>> /\ ParseI32(token[1]) # <<>> THEN ParseI32(token[1])[1] ELSE 0

\* Lines 368-388: time_ago, the decoded text of the link inside .age, "" by default.
TimeAgo(subtext) ==
    IF subtext = <<>> \/ subtext[1].age = <<>> THEN <<>>
    ELSE DecodeHtmlEntities(subtext[1].age[1])

RECURSIVE SelectSubtexts(_)
\* document.select(&subtext_selector): every .subtext of the page, in document order.
SelectSubtexts(story_rows) ==
    IF story_rows = <<>> THEN <<>>
    ELSE story_rows[1].subtext \o SelectSubtexts(Tail(story_rows))

\* Line 349: document.select(&subtext_selector).nth(i), for the 1-based i here.
SubtextNth(story_rows, i) ==
    IF i <= Len(SelectSubtexts(story_rows))
    THEN <<SelectSubtexts(story_rows)[i]>>
    ELSE <<>>

\* Lines 295-305: `&html[start_idx + 3..start_idx + 5]` on the first "?p=" of the
\* markup panics when fewer than two bytes follow it or when the second byte is
\* inside a multi-byte character; the page number it computes is never used.
PageNumberPanics(html) == html.after_page_param \in {"end_of_text", "inside_char"}

\* Lines 315-446: the record of the i-th item row.  (title, url and domain are
\* read from the item row itself and are left out.)
ParseStoryRow(html, i) ==
    LET subtext == SubtextNth(html.rows, i)
    IN  [id |-> html.rows[i].id,
         by |-> By(subtext),
         score |-> Score(subtext),
         time_ago |-> TimeAgo(subtext),
         comments_count |-> CommentsCount(subtext),
         original_index |-> i - 1]

\* parse_stories, when it returns: one record per .athing row.
ParseStoriesPage(html) == [i \in 1..Len(html.rows) |-> ParseStoryRow(html, i)]

\* The texts of a metadata row's elements on the pages considered.
ScoreText == <<"10", " ", "points">>
AgeLink == <<"1", " ", "hour", " ", "ago">>
CommentLinkTexts ==
    { <<"discuss">>,
      <<"12", "&nbsp;", "comments">>,
      <<"3", " ", "comments">>,
      <<"1", "&nbsp;", "comment">>,
      <<"7", " ", "comment">>,
      <<"comments">>,
      <<"5", " ", "comments", " ", "discuss">>,
      <<"99999999999", "&nbsp;", "comments">>,
      <<"4", " ", "of", " ", "99999999999", " ", "comments">> }

\* A metadata row (.subtext): its .hnuser, .score and .age elements and all its
\* links in document order (author, age, hide, comments).
Subtext(hnuser, score, comment_links) ==
    [hnuser |-> hnuser, score |-> score, age |-> <<AgeLink>>,
     links |-> hnuser \o <<AgeLink, <<"hide">>>> \o comment_links]

SubtextRows ==
    {Subtext(<< <<"alice">> >>, <<ScoreText>>, <<t>>) : t \in CommentLinkTexts}
    \cup {Subtext(<< <<"commenter">> >>, <<ScoreText>>, << <<"12", "&nbsp;", "comments">> >>),
          Subtext(<<>>, <<>>, <<>>)}

\* What follows the first "?p=" of the markup, if there is one.
PageParamContexts == {"two_bytes", "end_of_text", "inside_char"}

-----------------------------------------------------------------------------
(* hn_client.rs: the listing request and the "More" link of its response   *)

\* The href of the response's "More" link: none, the ?p= link of the other tabs,
\* or the newest?next=ID&n=N link of the 'new' tab.
MoreLinks ==
    { [kind |-> "none", next |-> "", n |-> ""],
      [kind |-> "p", next |-> "", n |-> ""],
      [kind |-> "next", next |-> "x1", n |-> "31"],
      [kind |-> "next", next |-> "x2", n |-> "61"] }

\* extract_more_link_params: Some((next, n)) for an href that contains
\* "newest?next=" and "&n=", None otherwise.
ExtractMoreLinkParams(morelink) ==
    IF morelink.kind = "next" THEN << <<morelink.next, morelink.n>> >> ELSE <<>>

\* HackerNewsClient::new then the copy of cache and cache_ttl_secs (main.rs,
\* clone): next_page_params is the new client's Mutex::new(None).
CloneClient(c) == [next_page_params |-> <<>>]

\* Lines 171-204: the URL of the request, as the tab's base and the query.
ListingUrl(c, tab, page) ==
    [base |-> tab,
     query |->
        IF page > 1
        THEN IF tab = "new"
             THEN IF page = 2
                  THEN <<"n", "31">>
                  ELSE IF c.next_page_params # <<>>
                       THEN <<"next", c.next_page_params[1][1],
                              "n", c.next_page_params[1][2]>>
                       ELSE <<"n", ToString(1 + (page - 1) * 30)>>
             ELSE <<"p", ToString(page)>>
        ELSE <<>>]

\* Lines 214-220: the pair of a 'new' response replaces the stored one.
StoreMoreLinkParams(c, tab, morelink) ==
    IF tab = "new" /\ ExtractMoreLinkParams(morelink) # <<>>
    THEN [c EXCEPT !.next_page_params = ExtractMoreLinkParams(morelink)]
    ELSE c

-----------------------------------------------------------------------------
(* hn_client.rs: the client calls, one step per lock operation or request  *)

NoCall == [method |-> "none", tab |-> "", page |-> 0, item_id |-> ""]
NoResult == [kind |-> "none", value |-> <<>>]
Ok(v) == [kind |-> "Ok", value |-> v]
Err == [kind |-> "Err", value |-> <<>>]

IsCacheableKey_AnyPage(tab, page) == tab = "hot"

\* `tab == "hot" && page == 1` (fetch_stories_by_tab_and_page, lines 88 and 100)
IsCacheableKey(tab, page) == tab = "hot" /\ page = 1

\* Mutex::try_lock succeeds iff nobody holds the mutex.
TryLock(u) == lock = NoUnit

MayAttemptLock_Blocking(u) == lock = NoUnit

\* cache.try_lock() never waits: the step is taken whoever holds the mutex.
MayAttemptLock(u) == TRUE

DropGuard_Leak(u) == u

\* The MutexGuard is dropped at the end of its `if let` block.
DropGuard(u) == NoUnit

\* A finished thread is joined before anything else happens: its locals are read
\* by nobody, so the order of its join and the other threads' steps is immaterial.
NoneDone == \A v \in Units : pc[v] # "done"

Running(u) == pc[u] \notin {"idle", "done"}

\* A thread ends its call with result r.
Return(u, r) ==
    /\ pc' = [pc EXCEPT ![u] = "done"]
    /\ result' = [result EXCEPT ![u] = r]

\* thread::spawn of a client call (main.rs): the thread's locals are fresh.
Spawn(u, method, tab, page, item_id, start) ==
    /\ pc[u] = "idle"
    /\ NoneDone
    /\ spawned < MaxCalls
    /\ spawned' = spawned + 1
    /\ pc' = [pc EXCEPT ![u] = start]
    /\ call' = [call EXCEPT ![u] =
                  [method |-> method, tab |-> tab, page |-> page, item_id |-> item_id]]
    /\ response' = [response EXCEPT ![u] = NoResponse]
    /\ fetched' = [fetched EXCEPT ![u] = <<>>]
    /\ requests' = [requests EXCEPT ![u] = <<>>]
    /\ result' = [result EXCEPT ![u] = NoResult]
    /\ UNCHANGED <<cache, lock, now>>

\* load_stories and load_stories_with_refresh(false): client.fetch_stories_by_tab(tab)
SpawnLoadStories(u) ==
    /\ \E tab \in Tabs :
          Spawn(u, "fetch_stories_by_tab_and_page", tab, 1, "", "check_stories")
    /\ UNCHANGED notCacheVars

\* load_more_stories: client.fetch_stories_by_tab_and_page(tab, page), page >= 2
SpawnLoadMoreStories(u) ==
    /\ \E tab \in Tabs : \E page \in Pages \ {1} :
          Spawn(u, "fetch_stories_by_tab_and_page", tab, page, "", "check_stories")
    /\ UNCHANGED notCacheVars

\* load_stories_with_refresh(true): client.fetch_fresh_stories_by_tab(tab)
SpawnForceRefreshStories(u) ==
    /\ \E tab \in Tabs :
          Spawn(u, "fetch_fresh_stories_by_tab", tab, 1, "", "fetch_stories")
    /\ UNCHANGED notCacheVars

\* load_comments: fetch_latest_comments if show_latest, else fetch_comments
SpawnLoadComments(u) ==
    /\ \E id \in ItemIds : \E show_latest \in BOOLEAN :
          IF show_latest
          THEN Spawn(u, "fetch_latest_comments", "", 0, id, "fetch_latest")
          ELSE Spawn(u, "fetch_comments", "", 0, id, "check_comments")
    /\ UNCHANGED notCacheVars

\* view_comments(story, true): fetch_latest_comments if show_latest, else
\* fetch_fresh_comments
SpawnForceRefreshComments(u) ==
    /\ \E id \in ItemIds : \E show_latest \in BOOLEAN :
          IF show_latest
          THEN Spawn(u, "fetch_latest_comments", "", 0, id, "fetch_latest")
          ELSE Spawn(u, "fetch_fresh_comments", "", 0, id, "fetch_comments")
    /\ UNCHANGED notCacheVars

\* fetch_stories_by_tab_and_page, lines 88-89: the cacheable key tries the lock
\* for the read; any other key, and a failed try_lock, goes on to the fetch.
CheckStories(u) ==
    /\ pc[u] = "check_stories"
    /\ NoneDone
    /\ MayAttemptLock(u)
    /\ IF IsCacheableKey(call[u].tab, call[u].page) /\ TryLock(u)
       THEN /\ lock' = u
            /\ pc' = [pc EXCEPT ![u] = "read_stories"]
       ELSE /\ lock' = lock
            /\ pc' = [pc EXCEPT ![u] = "fetch_stories"]
    /\ UNCHANGED <<cache, now, call, response, fetched, requests, result, spawned>>
    /\ UNCHANGED notCacheVars

\* The read at lines 90-94 if a hit stamped the listing slot anew.
ReadStories_Restamp(u) ==
    /\ pc[u] = "read_stories"
    /\ NoneDone
    /\ lock = u
    /\ lock' = DropGuard(u)
    /\ IF IsStoriesCacheValid(cache, now, CacheTtlSecs)
       THEN /\ Return(u, Ok(cache.stories))
            /\ cache' = [cache EXCEPT !.timestamp = now]
       ELSE /\ pc' = [pc EXCEPT ![u] = "fetch_stories"]
            /\ result' = result
            /\ cache' = cache
    /\ UNCHANGED <<now, call, response, fetched, requests, spawned>>
    /\ UNCHANGED notCacheVars

\* lines 90-94, under the guard: a valid cache is cloned and returned; the guard
\* is dropped either way.
ReadStories(u) ==
    /\ pc[u] = "read_stories"
    /\ NoneDone
    /\ lock = u
    /\ lock' = DropGuard(u)
    /\ IF IsStoriesCacheValid(cache, now, CacheTtlSecs)
       THEN Return(u, Ok(cache.stories))
       ELSE /\ pc' = [pc EXCEPT ![u] = "fetch_stories"]
            /\ result' = result
    /\ UNCHANGED <<cache, now, call, response, fetched, requests, spawned>>
    /\ UNCHANGED notCacheVars

AfterFreshStories_AlwaysStore(method, tab, page) ==
    IF IsCacheableKey(tab, page) THEN "store_stories" ELSE "done"

\* What follows a successful fetch_fresh_stories_by_tab_and_page: the caller
\* fetch_stories_by_tab_and_page goes on to line 100 (and to the cache for the
\* cacheable key); fetch_fresh_stories_by_tab returns the stories as they are.
AfterFreshStories(method, tab, page) ==
    IF method = "fetch_stories_by_tab_and_page" /\ IsCacheableKey(tab, page)
    THEN "store_stories"
    ELSE "done"

\* fetch_fresh_stories_by_tab_and_page, lines 205-231: the GET, then parse_stories.
\* A failed send is the call's Err (the `?` at lines 97 and 205).
FetchStories(u) ==
    /\ pc[u] = "fetch_stories"
    /\ NoneDone
    /\ \E r \in Responses(ListingBodies) :
          /\ response' = [response EXCEPT ![u] = r]
          /\ requests' = [requests EXCEPT ![u] = Append(@, "listing")]
          /\ IF ~r.sent
             THEN /\ Return(u, Err)
                  /\ fetched' = fetched
             ELSE LET stories == ParseStories(r.body)
                      next == AfterFreshStories(call[u].method, call[u].tab, call[u].page)
                  IN  /\ fetched' = [fetched EXCEPT ![u] = stories]
                      /\ IF next = "done"
                         THEN Return(u, Ok(stories))
                         ELSE /\ pc' = [pc EXCEPT ![u] = next]
                              /\ result' = result
    /\ UNCHANGED <<cache, lock, now, call, spawned>>
    /\ UNCHANGED notCacheVars

\* lines 100-102: try the lock for the write; if it is taken the stories are
\* returned without being cached.
StoreStories(u) ==
    /\ pc[u] = "store_stories"
    /\ NoneDone
    /\ MayAttemptLock(u)
    /\ IF TryLock(u)
       THEN /\ lock' = u
            /\ pc' = [pc EXCEPT ![u] = "write_stories"]
            /\ result' = result
       ELSE /\ lock' = lock
            /\ Return(u, Ok(fetched[u]))
    /\ UNCHANGED <<cache, now, call, response, fetched, requests, spawned>>
    /\ UNCHANGED notCacheVars

\* lines 103-108, under the guard: update_stories, drop the guard, Ok(stories).
WriteStories(u) ==
    /\ pc[u] = "write_stories"
    /\ NoneDone
    /\ lock = u
    /\ cache' = UpdateStories(cache, fetched[u], now)
    /\ lock' = DropGuard(u)
    /\ Return(u, Ok(fetched[u]))
    /\ UNCHANGED <<now, call, response, fetched, requests, spawned>>
    /\ UNCHANGED notCacheVars

\* fetch_comments, line 236: try the lock for the read.
CheckComments(u) ==
    /\ pc[u] = "check_comments"
    /\ NoneDone
    /\ MayAttemptLock(u)
    /\ IF TryLock(u)
       THEN /\ lock' = u
            /\ pc' = [pc EXCEPT ![u] = "read_comments"]
       ELSE /\ lock' = lock
            /\ pc' = [pc EXCEPT ![u] = "fetch_comments"]
    /\ UNCHANGED <<cache, now, call, response, fetched, requests, result, spawned>>
    /\ UNCHANGED notCacheVars

\* lines 237-240, under the guard: a valid entry is cloned and returned.
ReadComments(u) ==
    /\ pc[u] = "read_comments"
    /\ NoneDone
    /\ lock = u
    /\ lock' = DropGuard(u)
    /\ IF IsCommentsCacheValid(cache, call[u].item_id, now, CacheTtlSecs)
       THEN Return(u, Ok(GetCachedComments(cache, call[u].item_id)))
       ELSE /\ pc' = [pc EXCEPT ![u] = "fetch_comments"]
            /\ result' = result
    /\ UNCHANGED <<cache, now, call, response, fetched, requests, spawned>>
    /\ UNCHANGED notCacheVars

\* What follows a successful fetch_fresh_comments: fetch_comments goes on to
\* line 246; called directly (view_comments with force_refresh) it returns.
AfterFreshComments(method) ==
    IF method = "fetch_comments" THEN "store_comments" ELSE "done"

\* fetch_fresh_comments, lines 255-265: the GET of item?id=, then parse_comments.
FetchComments(u) ==
    /\ pc[u] = "fetch_comments"
    /\ NoneDone
    /\ \E r \in Responses(ThreadBodies) :
          /\ response' = [response EXCEPT ![u] = r]
          /\ requests' = [requests EXCEPT ![u] = Append(@, "item")]
          /\ IF ~r.sent
             THEN /\ Return(u, Err)
                  /\ fetched' = fetched
             ELSE LET comments == ParseComments(r.body)
                      next == AfterFreshComments(call[u].method)
                  IN  /\ fetched' = [fetched EXCEPT ![u] = comments]
                      /\ IF next = "done"
                         THEN Return(u, Ok(comments))
                         ELSE /\ pc' = [pc EXCEPT ![u] = next]
                              /\ result' = result
    /\ UNCHANGED <<cache, lock, now, call, spawned>>
    /\ UNCHANGED notCacheVars

\* fetch_comments, line 246: try the lock for the write.
StoreComments(u) ==
    /\ pc[u] = "store_comments"
    /\ NoneDone
    /\ MayAttemptLock(u)
    /\ IF TryLock(u)
       THEN /\ lock' = u
            /\ pc' = [pc EXCEPT ![u] = "write_comments"]
            /\ result' = result
       ELSE /\ lock' = lock
            /\ Return(u, Ok(fetched[u]))
    /\ UNCHANGED <<cache, now, call, response, fetched, requests, spawned>>
    /\ UNCHANGED notCacheVars

\* lines 247-251, under the guard: update_comments, drop the guard, Ok(comments).
WriteComments(u) ==
    /\ pc[u] = "write_comments"
    /\ NoneDone
    /\ lock = u
    /\ cache' = UpdateComments(cache, call[u].item_id, fetched[u], now)
    /\ lock' = DropGuard(u)
    /\ Return(u, Ok(fetched[u]))
    /\ UNCHANGED <<now, call, response, fetched, requests, spawned>>
    /\ UNCHANGED notCacheVars

LatestSuffices_Never(comments) == FALSE

\* fetch_latest_comments, line 278: `!comments.is_empty()`
LatestSuffices(comments) == comments # <<>>

\* fetch_latest_comments, lines 273-281: the GET of latest?id=, parse_comments,
\* and the early return when it gave at least one comment.
FetchLatest(u) ==
    /\ pc[u] = "fetch_latest"
    /\ NoneDone
    /\ \E r \in Responses(ThreadBodies) :
          /\ response' = [response EXCEPT ![u] = r]
          /\ requests' = [requests EXCEPT ![u] = Append(@, "latest")]
          /\ IF ~r.sent
             THEN /\ Return(u, Err)
                  /\ fetched' = fetched
             ELSE LET comments == ParseComments(r.body)
                  IN  /\ fetched' = [fetched EXCEPT ![u] = comments]
                      /\ IF LatestSuffices(comments)
                         THEN Return(u, Ok(comments))
                         ELSE /\ pc' = [pc EXCEPT ![u] = "fetch_fallback"]
                              /\ result' = result
    /\ UNCHANGED <<cache, lock, now, call, spawned>>
    /\ UNCHANGED notCacheVars

\* fetch_latest_comments, lines 285-290: the fallback GET of item?id=.
FetchFallback(u) ==
    /\ pc[u] = "fetch_fallback"
    /\ NoneDone
    /\ \E r \in Responses(ThreadBodies) :
          /\ response' = [response EXCEPT ![u] = r]
          /\ requests' = [requests EXCEPT ![u] = Append(@, "item")]
          /\ IF ~r.sent
             THEN /\ Return(u, Err)
                  /\ fetched' = fetched
             ELSE LET fallback_comments == ParseComments(r.body)
                  IN  /\ fetched' = [fetched EXCEPT ![u] = fallback_comments]
                      /\ Return(u, Ok(fallback_comments))
    /\ UNCHANGED <<cache, lock, now, call, spawned>>
    /\ UNCHANGED notCacheVars

\* Time passes.
Tick ==
    /\ now < MaxTime
    /\ NoneDone
    /\ now' = now + TickSecs
    /\ UNCHANGED <<cache, lock, pc, call, response, fetched, requests, result, spawned>>
    /\ UNCHANGED notCacheVars

\* The thread has ended (check_loading_thread joins a finished load_thread); its
\* locals are gone.
Join(u) ==
    /\ pc[u] = "done"
    /\ pc' = [pc EXCEPT ![u] = "idle"]
    /\ call' = [call EXCEPT ![u] = NoCall]
    /\ response' = [response EXCEPT ![u] = NoResponse]
    /\ fetched' = [fetched EXCEPT ![u] = <<>>]
    /\ requests' = [requests EXCEPT ![u] = <<>>]
    /\ result' = [result EXCEPT ![u] = NoResult]
    /\ UNCHANGED <<cache, lock, now, spawned>>
    /\ UNCHANGED notCacheVars

-----------------------------------------------------------------------------
(* parse_comments, row by row, and its tree                                *)

\* One iteration of the loop at lines 462-511 for a row with a new id: the
\* (level, comment) pair is pushed.  The level is the row's indent attribute.
ParseCommentRow ==
    /\ ~built
    /\ Len(comment_list) < MaxLen
    /\ \E level \in MinLevel..MaxLevel :
          comment_list' = Append(comment_list,
                                 <<level, Comment(Len(comment_list) + 1, level)>>)
    /\ UNCHANGED <<tree, built>>
    /\ UNCHANGED notTreeVars

\* line 578: let tree = build_comments_tree(&comment_list)
BuildTree ==
    /\ ~built
    /\ tree' = BuildCommentsTree(comment_list)
    /\ built' = TRUE
    /\ UNCHANGED comment_list
    /\ UNCHANGED notTreeVars

\* The detail page gets one more comment row: its id attribute and the indent
\* attribute of its .ind cell (lines 463 and 470-475).
ReceiveCommentRow ==
    /\ ~built
    /\ Len(rows) < MaxRows
    /\ \E id \in CommentIds : \E indent \in MinLevel..MaxLevel :
          rows' = Append(rows, [id |-> id, indent |-> indent])
    /\ UNCHANGED treeVars
    /\ UNCHANGED listingVars
    /\ UNCHANGED <<cacheVars, cursorVars, appVars, viewVars>>

\* parse_comments on the page: the loop over the rows, then the tree.
ParseThread ==
    /\ ~built
    /\ comment_list' = ParseCommentRows(rows, 1, {}, <<>>)
    /\ tree' = BuildCommentsTree(comment_list')
    /\ built' = TRUE
    /\ UNCHANGED rows
    /\ UNCHANGED listingVars
    /\ UNCHANGED <<cacheVars, cursorVars, appVars, viewVars>>

\* The listing page gets one more item row (.athing), followed or not by its
\* metadata row.
ReceiveStoryRow ==
    /\ parse_state = "no"
    /\ Len(listing.rows) < MaxStoryRows
    /\ \E id \in StoryIds : \E subtext \in {<<>>} \cup {<<m>> : m \in SubtextRows} :
          listing' = [listing EXCEPT
                         !.rows = Append(@, [id |-> id, subtext |-> subtext])]
    /\ UNCHANGED <<parsed_stories, parse_state>>
    /\ UNCHANGED rows
    /\ UNCHANGED notPageVars

\* The listing page contains "?p=" somewhere (a More link, a story URL, a title).
ReceivePageParam ==
    /\ parse_state = "no"
    /\ listing.after_page_param = "absent"
    /\ \E context \in PageParamContexts :
          listing' = [listing EXCEPT !.after_page_param = context]
    /\ UNCHANGED <<parsed_stories, parse_state>>
    /\ UNCHANGED rows
    /\ UNCHANGED notPageVars

\* parse_stories(html) returns its records.
ParseStoriesReturns ==
    /\ parse_state = "no"
    /\ ~PageNumberPanics(listing)
    /\ parsed_stories' = ParseStoriesPage(listing)
    /\ parse_state' = "ok"
    /\ UNCHANGED listing
    /\ UNCHANGED rows
    /\ UNCHANGED notPageVars

\* parse_stories(html) panics in the page-number slice: nothing is returned.
ParseStoriesPanics ==
    /\ parse_state = "no"
    /\ PageNumberPanics(listing)
    /\ parse_state' = "panic"
    /\ UNCHANGED <<listing, parsed_stories>>
    /\ UNCHANGED rows
    /\ UNCHANGED notPageVars

-----------------------------------------------------------------------------
(* main.rs: HackerNewsReaderApp, its background threads and their channels *)
(* An Option is a sequence: <<>> is None, <<x>> is Some(x).                *)

\* The background threads that are alive at a time.
AppUnits == {1, 2}

\* A story of a listing page, and the stories a page of a tab holds.
Item(tab, page, k) == [tab |-> tab, page |-> page, k |-> k]
PageItems(tab, page) == [k \in 1..ItemsPerPage |-> Item(tab, page, k)]
\* The "Test Item - Loading Failed" story (id "1").
TestItem == Item("test", 0, 1)
\* The thread of a story, as the client returns it.
CommentsOf(story) == << [story |-> story] >>

NoRequest == [kind |-> "none", method |-> "none", tab |-> "", page |-> 0, story |-> <<>>]
FreeThread ==
    [state |-> "free", request |-> NoRequest, message |-> <<>>,
     rx_alive |-> FALSE, lost |-> FALSE]

\* HackerNewsReaderApp::new: the two debug stories, nothing selected, not loading.
NewApp ==
    [stories |-> <<Item("debug", 0, 1), Item("debug", 0, 2)>>,
     selected_story |-> <<>>,
     comments |-> <<>>,
     loading |-> FALSE,
     current_tab |-> "hot",
     current_page |-> 1,
     loading_more_stories |-> FALSE,
     end_of_stories |-> FALSE,
     load_thread |-> <<>>,
     stories_receiver |-> <<>>,
     comments_receiver |-> <<>>,
     first_frame |-> TRUE]

\* What a thread's client call can return: Err (sent as None), or Ok with no
\* records, or Ok with the page's stories / the story's thread.
Outcomes(request) ==
    {[some |-> FALSE, value |-> <<>>], [some |-> TRUE, value |-> <<>>]}
    \cup {[some |-> TRUE,
            value |-> IF request.kind = "stories"
                      THEN PageItems(request.tab, request.page)
                      ELSE CommentsOf(request.story[1])]}

\* The app and its threads, as one value the handlers transform; ok = FALSE
\* when a spawn is beyond the bounds of the model.
World == [app |-> app, bg |-> bg, dispatched |-> dispatched, ok |-> TRUE]

\* A thread slot is reused once its thread has finished and the app holds
\* neither its JoinHandle nor its Receiver.
Reap(w) ==
    [w EXCEPT !.bg =
        [u \in AppUnits |->
            IF /\ w.bg[u].state = "finished"
               /\ w.app.load_thread # <<u>>
               /\ w.app.stories_receiver # <<u>>
               /\ w.app.comments_receiver # <<u>>
            THEN [FreeThread EXCEPT !.lost = w.bg[u].lost]
            ELSE w.bg[u]]]

\* let (tx, rx) = channel(); thread::spawn(..); self.load_thread = Some(handle);
\* self.<kind>_receiver = Some(rx).  The Receiver that was stored there is
\* dropped, with any message it still holds.
SpawnThread(w, request) ==
    LET free == {u \in AppUnits : w.bg[u].state = "free"}
        u == CHOOSE u \in free : \A v \in free : u <= v
        old == IF request.kind = "stories" THEN w.app.stories_receiver
               ELSE w.app.comments_receiver
        dropped == [v \in AppUnits |->
                      IF old = <<v>>
                      THEN [w.bg[v] EXCEPT !.rx_alive = FALSE,
                                           !.lost = @ \/ w.bg[v].message # <<>>,
                                           !.message = <<>>]
                      ELSE w.bg[v]]
    IN  IF free = {} \/ w.dispatched >= MaxDispatch THEN [w EXCEPT !.ok = FALSE]
        ELSE [w EXCEPT
                !.bg = [dropped EXCEPT ![u] =
                           [state |-> "running", request |-> request,
                            message |-> <<>>, rx_alive |-> TRUE, lost |-> FALSE]],
                !.app.load_thread = <<u>>,
                !.app.stories_receiver =
                    IF request.kind = "stories" THEN <<u>> ELSE @,
                !.app.comments_receiver =
                    IF request.kind = "comments" THEN <<u>> ELSE @,
                !.dispatched = @ + 1]

\* load_stories
LoadStories(w) ==
    IF w.app.loading THEN w
    ELSE SpawnThread([w EXCEPT !.app.loading = TRUE,
                               !.app.current_page = 1,
                               !.app.end_of_stories = FALSE],
                     [kind |-> "stories", method |-> "fetch_stories_by_tab",
                      tab |-> w.app.current_tab, page |-> 1, story |-> <<>>])

\* load_more_stories without the MAX_PAGES check.
LoadMoreStories_NoCap(w) ==
    IF w.app.loading \/ w.app.loading_more_stories \/ w.app.end_of_stories THEN w
    ELSE SpawnThread([w EXCEPT !.app.current_page = @ + 1,
                               !.app.loading_more_stories = TRUE],
                     [kind |-> "stories", method |-> "fetch_stories_by_tab_and_page",
                      tab |-> w.app.current_tab, page |-> w.app.current_page + 1,
                      story |-> <<>>])

\* load_more_stories
LoadMoreStories(w) ==
    IF w.app.loading \/ w.app.loading_more_stories \/ w.app.end_of_stories THEN w
    ELSE IF w.app.current_page >= MaxPages
    THEN [w EXCEPT !.app.end_of_stories = TRUE]
    ELSE SpawnThread([w EXCEPT !.app.current_page = @ + 1,
                               !.app.loading_more_stories = TRUE],
                     [kind |-> "stories", method |-> "fetch_stories_by_tab_and_page",
                      tab |-> w.app.current_tab, page |-> w.app.current_page + 1,
                      story |-> <<>>])

\* load_stories_with_refresh
LoadStoriesWithRefresh(w, force_refresh) ==
    IF w.app.loading THEN w
    ELSE SpawnThread([w EXCEPT !.app.loading = TRUE,
                               !.app.current_page = 1,
                               !.app.end_of_stories = FALSE],
                     [kind |-> "stories",
                      method |-> IF force_refresh THEN "fetch_fresh_stories_by_tab"
                                 ELSE "fetch_stories_by_tab",
                      tab |-> w.app.current_tab, page |-> 1, story |-> <<>>])

\* load_comments
LoadComments(w, story) ==
    IF w.app.loading THEN w
    ELSE SpawnThread([w EXCEPT !.app.loading = TRUE],
                     [kind |-> "comments", method |-> "fetch_comments",
                      tab |-> "", page |-> 0, story |-> <<story>>])

\* view_comments
ViewComments(w, story, force_refresh) ==
    LET selected == [w EXCEPT !.app.selected_story = <<story>>]
    IN  IF force_refresh
        THEN IF selected.app.loading THEN selected
             ELSE SpawnThread([selected EXCEPT !.app.loading = TRUE],
                              [kind |-> "comments", method |-> "fetch_fresh_comments",
                               tab |-> "", page |-> 0, story |-> <<story>>])
        ELSE LoadComments(selected, story)

\* refresh_current_view
RefreshCurrentView(w, force_refresh) ==
    IF w.app.loading THEN w
    ELSE IF w.app.selected_story # <<>>
    THEN ViewComments(w, w.app.selected_story[1], force_refresh)
    ELSE LoadStoriesWithRefresh(w, force_refresh)

\* switch_tab
SwitchTab(w, tab) ==
    IF w.app.current_tab = tab THEN w
    ELSE LoadStories([w EXCEPT !.app.current_tab = tab,
                               !.app.selected_story = <<>>,
                               !.app.comments = <<>>,
                               !.app.current_page = 1,
                               !.app.end_of_stories = FALSE,
                               !.app.loading_more_stories = FALSE])

\* check_loading_thread, lines 772-883: try_recv on the stories receiver.
CheckStoriesReceiver(w) ==
    IF w.app.stories_receiver = <<>> THEN w
    ELSE LET u == w.app.stories_receiver[1]
             a == w.app
             m == w.bg[u].message[1]
             fresh == SelectSeq(m.value, LAMBDA story :
                          \A i \in 1..Len(a.stories) : a.stories[i] # story)
             added == Len(fresh)
             end == \/ m.value = <<>>
                    \/ added = 0
                    \/ added < 5 /\ a.current_page >= 3
                    \/ added < 2 /\ a.current_page >= 2
             received ==
                IF m.some
                THEN IF a.loading_more_stories
                     THEN [a EXCEPT !.stories = @ \o fresh,
                                    !.end_of_stories = @ \/ end,
                                    !.loading_more_stories = FALSE]
                     ELSE [a EXCEPT !.stories = m.value]
                ELSE IF ~a.loading_more_stories
                     THEN [a EXCEPT !.stories = <<TestItem>>]
                     ELSE a
         IN  IF w.bg[u].message = <<>> THEN w
             ELSE [w EXCEPT
                     !.app = [received EXCEPT !.loading = FALSE,
                                              !.loading_more_stories = FALSE,
                                              !.stories_receiver = <<>>],
                     !.bg[u].message = <<>>,
                     !.bg[u].rx_alive = FALSE]

\* check_loading_thread, lines 885-933: try_recv on the comments receiver.
CheckCommentsReceiver(w) ==
    IF w.app.comments_receiver = <<>> THEN w
    ELSE LET u == w.app.comments_receiver[1]
             m == w.bg[u].message[1]
         IN  IF w.bg[u].message = <<>> THEN w
             ELSE [w EXCEPT
                     !.app.comments = IF m.some THEN m.value ELSE <<>>,
                     !.app.loading = FALSE,
                     !.app.comments_receiver = <<>>,
                     !.bg[u].message = <<>>,
                     !.bg[u].rx_alive = FALSE]

\* check_loading_thread, lines 956-988: the finished thread is joined; with
\* nothing selected, no stories and no stories receiver the test item is shown.
CheckThreadFinished(w) ==
    IF w.app.load_thread = <<>> THEN w
    ELSE IF w.bg[w.app.load_thread[1]].state # "finished" THEN w
    ELSE IF /\ w.app.selected_story = <<>>
            /\ w.app.stories = <<>>
            /\ w.app.stories_receiver = <<>>
    THEN [w EXCEPT !.app.load_thread = <<>>,
                   !.app.stories = <<TestItem>>,
                   !.app.loading = FALSE]
    ELSE [w EXCEPT !.app.load_thread = <<>>]

\* check_loading_thread (the receiver of a story fetched by id, lines 935-954,
\* is not modelled)
CheckLoadingThread(w) ==
    CheckThreadFinished(CheckCommentsReceiver(CheckStoriesReceiver(w)))

\* The handlers' result becomes the state.
Commit(w) ==
    /\ w.ok
    /\ app' = Reap(w).app
    /\ bg' = Reap(w).bg
    /\ dispatched' = w.dispatched

\* update, lines 1349-1365: check_loading_thread, the load of the first frame,
\* the automatic reload when there are no stories.  The widgets are drawn and
\* the input is handled after it, in the same call.
Update(w) ==
    LET checked == CheckLoadingThread(w)
        first == IF checked.app.first_frame
                 THEN LoadStories([checked EXCEPT !.app.first_frame = FALSE])
                 ELSE checked
    IN  IF /\ first.app.stories = <<>>
           /\ ~first.app.loading
           /\ first.app.load_thread = <<>>
        THEN LoadStories(first)
        ELSE first

\* A frame whose input loads nothing.
UpdateOnly ==
    /\ Commit(Update(World))
    /\ UNCHANGED notAppVars

\* A frame with a tab button or a number key: switch_tab(tab).
PressTab ==
    /\ \E tab \in Tabs : Commit(SwitchTab(Update(World), tab))
    /\ UNCHANGED notAppVars

\* A frame in which a story of the table is opened (the table is drawn when
\* not loading and nothing is selected): view_comments(story, shift held).
ClickStory ==
    LET w == Update(World)
    IN  /\ ~w.app.loading /\ w.app.selected_story = <<>>
        /\ \E i \in 1..Len(w.app.stories) : \E force_refresh \in BOOLEAN :
              Commit(ViewComments(w, w.app.stories[i], force_refresh))
        /\ UNCHANGED notAppVars

\* A frame with Enter in the stories view, on the story the arrow keys have
\* highlighted (process_keyboard_shortcuts tests selected_story.is_none(), not
\* loading): view_comments(story, false).
PressEnter ==
    LET w == Update(World)
    IN  /\ w.app.selected_story = <<>>
        /\ \E i \in 1..Len(w.app.stories) :
              Commit(ViewComments(w, w.app.stories[i], FALSE))
        /\ UNCHANGED notAppVars

\* A frame with Backspace or the back button in the comments view.
PressBack ==
    LET w == Update(World)
    IN  /\ w.app.selected_story # <<>>
        /\ Commit([w EXCEPT !.app.selected_story = <<>>, !.app.comments = <<>>])
        /\ UNCHANGED notAppVars

\* A frame in which the story table is scrolled to its bottom:
\* load_more_stories().
ScrollToBottom ==
    LET w == Update(World)
    IN  /\ ~w.app.loading /\ w.app.selected_story = <<>>
        /\ Commit(LoadMoreStories(w))
        /\ UNCHANGED notAppVars

\* A frame with Ctrl+R or the refresh button: refresh_current_view(true).
PressRefresh ==
    LET w == Update(World)
    IN  /\ ~w.app.loading
        /\ Commit(RefreshCurrentView(w, TRUE))
        /\ UNCHANGED notAppVars

\* A background thread's client call returns and the thread sends Some(..) or
\* None; the send fails if the Receiver was dropped.
ThreadSends(u) ==
    /\ bg[u].state = "running"
    /\ \E outcome \in Outcomes(bg[u].request) :
          bg' = [bg EXCEPT ![u].state = "sent",
                           ![u].message = IF bg[u].rx_alive THEN <<outcome>> ELSE <<>>,
                           ![u].lost = ~bg[u].rx_alive]
    /\ UNCHANGED <<app, dispatched>>
    /\ UNCHANGED notAppVars

\* The client call of a listing thread panics (hn_client.rs, lines 295-305: the
\* slice of the page number): the thread ends and nothing is sent.
ThreadPanics(u) ==
    /\ bg[u].state = "running"
    /\ bg[u].request.kind = "stories"
    /\ bg' = Reap([World EXCEPT !.bg[u].state = "finished",
                                !.bg[u].lost = TRUE]).bg
    /\ UNCHANGED <<app, dispatched>>
    /\ UNCHANGED notAppVars

\* The thread's closure returns: handle.is_finished() is true from now on.
ThreadFinishes(u) ==
    /\ bg[u].state = "sent"
    /\ bg' = Reap([World EXCEPT !.bg[u].state = "finished"]).bg
    /\ UNCHANGED <<app, dispatched>>
    /\ UNCHANGED notAppVars

\* main.rs: `let client = self.hn_client.clone();` before each thread::spawn
\* that fetches a listing (load_stories, load_more_stories, load_stories_with_refresh).
SpawnWithClone ==
    /\ ~client.live
    /\ Len(sent) < MaxFetches
    /\ client' = [live |-> TRUE, called |-> FALSE,
                  next_page_params |-> CloneClient(hn_client).next_page_params]
    /\ UNCHANGED <<hn_client, sent>>
    /\ UNCHANGED notCursorVars

\* The thread's one call: fetch_fresh_stories_by_tab_and_page(tab, page) on its
\* clone.  The request is sent; if a response arrives, the pair of its "More"
\* link is stored in the clone.
FetchFreshStoriesByTabAndPage ==
    /\ client.live /\ ~client.called
    /\ \E tab \in Tabs : \E page \in 1..MaxPage :
       \E arrives \in BOOLEAN : \E morelink \in MoreLinks :
          LET stored == IF arrives THEN StoreMoreLinkParams(client, tab, morelink)
                        ELSE client
          IN  /\ sent' = Append(sent,
                                [tab |-> tab, page |-> page,
                                 url |-> ListingUrl(client, tab, page),
                                 extracted |->
                                    IF arrives /\ tab = "new"
                                    THEN ExtractMoreLinkParams(morelink)
                                    ELSE <<>>])
              /\ client' = [stored EXCEPT !.called = TRUE]
    /\ UNCHANGED hn_client
    /\ UNCHANGED notCursorVars

\* The thread ends and its clone is dropped.
DropClone ==
    /\ client.live /\ client.called
    /\ client' = [live |-> FALSE, called |-> FALSE, next_page_params |-> <<>>]
    /\ UNCHANGED <<hn_client, sent>>
    /\ UNCHANGED notCursorVars

-----------------------------------------------------------------------------
(* main.rs: the comments view and its pages of top-level comments          *)

\* The top-level comments of a thread that has n of them.
TopLevelComments(n) == [i \in 1..n |-> i]

\* What a comment thread sends: Some(comments) or None.
CommentResults ==
    {[some |-> TRUE, value |-> TopLevelComments(n)] : n \in 0..MaxThreadSize}
    \cup {[some |-> FALSE, value |-> <<>>]}

\* HackerNewsReaderApp::new: nothing selected, no comments, page 0.
NewView ==
    [selected_story |-> <<>>,
     comments |-> <<>>,
     comments_page |-> 0,
     loading |-> FALSE,
     show_latest_comments_first |-> FALSE,
     comments_receiver |-> <<>>]

\* get_pagination_info: (current_page, total_pages)
GetPaginationInfo(v) ==
    LET total_pages ==
            IF v.comments = <<>> THEN 1
            ELSE (Len(v.comments) + CommentsPerPage - 1) \div CommentsPerPage
        current_page ==
            IF v.comments_page < total_pages - 1 THEN v.comments_page
            ELSE total_pages - 1
    IN  [current_page |-> current_page, total_pages |-> total_pages]

\* get_current_page_comments: the bounds of &self.comments[start_idx..end_idx]
PageSliceBounds(v) ==
    LET start_idx == v.comments_page * CommentsPerPage
        end_idx == IF start_idx + CommentsPerPage < Len(v.comments)
                   THEN start_idx + CommentsPerPage
                   ELSE Len(v.comments)
    IN  [start_idx |-> start_idx, end_idx |-> end_idx]

\* The slice panics when it starts after its end (or after the Vec's end).
PageSlicePanics(v) ==
    PageSliceBounds(v).start_idx > PageSliceBounds(v).end_idx

\* load_comments, as far as the view goes: suppressed while loading, else the
\* flag is set and a thread with a channel is spawned.
ViewLoadComments(v, story) ==
    IF v.loading THEN v
    ELSE [v EXCEPT !.loading = TRUE, !.comments_receiver = <<story>>]

\* view_comments(story, force_refresh): the story is selected and the page
\* reset before the loading guard.
ViewStory ==
    /\ \E story \in ItemIds :
          view' = ViewLoadComments([view EXCEPT !.selected_story = <<story>>,
                                                !.comments_page = 0], story)
    /\ view' # view
    /\ UNCHANGED notViewVars

\* Backspace or the back button.
ViewBack ==
    /\ view.selected_story # <<>>
    /\ view' = [view EXCEPT !.selected_story = <<>>, !.comments = <<>>]
    /\ UNCHANGED notViewVars

\* The sort button of the pagination controls (drawn when the thread is
\* shown): the order flips and the comments are loaded again.
ToggleSort ==
    /\ view.selected_story # <<>>
    /\ ~view.loading
    /\ view' = ViewLoadComments(
                  [view EXCEPT !.show_latest_comments_first = ~@],
                  view.selected_story[1])
    /\ UNCHANGED notViewVars

\* The next-page button: enabled by the clamped page, it adds one to
\* comments_page.
NextPageButton ==
    /\ view.selected_story # <<>>
    /\ ~view.loading
    /\ GetPaginationInfo(view).current_page < GetPaginationInfo(view).total_pages - 1
    /\ view' = [view EXCEPT !.comments_page = @ + 1]
    /\ UNCHANGED notViewVars

\* The previous-page button: enabled by the clamped page, it takes one from
\* comments_page (saturating_sub).
PrevPageButton ==
    /\ view.selected_story # <<>>
    /\ ~view.loading
    /\ GetPaginationInfo(view).current_page > 0
    /\ view' = [view EXCEPT !.comments_page = IF @ > 0 THEN @ - 1 ELSE 0]
    /\ UNCHANGED notViewVars

\* The Left, Right, Home and End keys of the comments view, read on every
\* frame while a story is selected and the comments are not empty.
PageKey ==
    /\ view.selected_story # <<>>
    /\ view.comments # <<>>
    /\ LET info == GetPaginationInfo(view)
       IN  \E key \in {"Left", "Right", "Home", "End"} :
              /\ key \in {"Left", "Home"} => info.current_page > 0
              /\ key \in {"Right", "End"} => info.current_page < info.total_pages - 1
              /\ view' = [view EXCEPT !.comments_page =
                             CASE key = "Left" -> info.current_page - 1
                               [] key = "Right" -> info.current_page + 1
                               [] key = "Home" -> 0
                               [] key = "End" -> info.total_pages - 1]
    /\ view' # view
    /\ UNCHANGED notViewVars

\* check_loading_thread, lines 886-928: the comment thread's message is taken.
ReceiveComments ==
    /\ view.comments_receiver # <<>>
    /\ \E m \in CommentResults :
          view' = [view EXCEPT !.comments = m.value,
                               !.loading = FALSE,
                               !.comments_receiver = <<>>]
    /\ UNCHANGED notViewVars

-----------------------------------------------------------------------------
(* Specifications                                                          *)

\* HackerNewsClient::new: an empty cache created now, a free mutex; no thread
\* has been spawned.
Init ==
    /\ now = 0
    /\ cache = NewStoriesCache(0)
    /\ lock = NoUnit
    /\ pc = [u \in Units |-> "idle"]
    /\ call = [u \in Units |-> NoCall]
    /\ response = [u \in Units |-> NoResponse]
    /\ fetched = [u \in Units |-> <<>>]
    /\ requests = [u \in Units |-> <<>>]
    /\ result = [u \in Units |-> NoResult]
    /\ comment_list = <<>>
    /\ tree = <<>>
    /\ built = FALSE
    /\ spawned = 0
    /\ rows = <<>>
    /\ listing = [rows |-> <<>>, after_page_param |-> "absent"]
    /\ parsed_stories = <<>>
    /\ parse_state = "no"
    /\ hn_client = [next_page_params |-> <<>>]
    /\ client = [live |-> FALSE, called |-> FALSE, next_page_params |-> <<>>]
    /\ sent = <<>>
    /\ app = NewApp
    /\ bg = [u \in AppUnits |-> FreeThread]
    /\ dispatched = 0
    /\ view = NewView

UnitStep(u) ==
    \/ CheckStories(u)
    \/ ReadStories(u)
    \/ FetchStories(u)
    \/ StoreStories(u)
    \/ WriteStories(u)
    \/ CheckComments(u)
    \/ ReadComments(u)
    \/ FetchComments(u)
    \/ StoreComments(u)
    \/ WriteComments(u)
    \/ FetchLatest(u)
    \/ FetchFallback(u)

Next ==
    \/ \E u \in Units : SpawnLoadStories(u)
    \/ \E u \in Units : SpawnLoadMoreStories(u)
    \/ \E u \in Units : SpawnForceRefreshStories(u)
    \/ \E u \in Units : SpawnLoadComments(u)
    \/ \E u \in Units : SpawnForceRefreshComments(u)
    \/ \E u \in Units : UnitStep(u)
    \/ \E u \in Units : Join(u)
    \/ Tick

\* The client under concurrent background threads.
Spec == Init /\ [][Next]_vars

\* The steps of runs that spawn at most MaxFairCalls threads.
FairNext == Next /\ spawned' <= MaxFairCalls

\* The client where every spawned thread keeps running (the OS schedules it) and
\* a finished thread is joined.
FairSpec ==
    /\ Init
    /\ [][FairNext]_vars
    /\ \A u \in Units : WF_vars(UnitStep(u)) /\ WF_vars(Join(u))

NextTree == ParseCommentRow \/ BuildTree

\* parse_comments on its own.
SpecTree == Init /\ [][NextTree]_vars

NextThread == ReceiveCommentRow \/ ParseThread

\* parse_comments on a page whose rows may repeat an id.
SpecThread == Init /\ [][NextThread]_vars

NextListing ==
    \/ ReceiveStoryRow
    \/ ReceivePageParam
    \/ ParseStoriesReturns
    \/ ParseStoriesPanics

\* parse_stories on any listing page.
SpecListing == Init /\ [][NextListing]_vars

NextCursor ==
    \/ SpawnWithClone
    \/ FetchFreshStoriesByTabAndPage
    \/ DropClone

\* The listing requests of the app, each sent by a thread with its own clone of
\* the client.
SpecCursor == Init /\ [][NextCursor]_vars

NextApp ==
    \/ UpdateOnly
    \/ PressTab
    \/ ClickStory
    \/ PressEnter
    \/ PressBack
    \/ ScrollToBottom
    \/ PressRefresh
    \/ \E u \in AppUnits : ThreadSends(u)
    \/ \E u \in AppUnits : ThreadPanics(u)
    \/ \E u \in AppUnits : ThreadFinishes(u)

\* The app's loading logic with its background threads.
SpecApp == Init /\ [][NextApp]_vars

\* The app with the first page of "hot" listed and current_page = p: its state
\* after page 1 was loaded and p - 1 further pages were requested, each request
\* answered by None, all threads joined.
ListingAtPage(p) ==
    [NewApp EXCEPT !.stories = PageItems("hot", 1),
                   !.current_page = p,
                   !.first_frame = FALSE]

InitPaging ==
    /\ now = 0
    /\ cache = NewStoriesCache(0)
    /\ lock = NoUnit
    /\ pc = [u \in Units |-> "idle"]
    /\ call = [u \in Units |-> NoCall]
    /\ response = [u \in Units |-> NoResponse]
    /\ fetched = [u \in Units |-> <<>>]
    /\ requests = [u \in Units |-> <<>>]
    /\ result = [u \in Units |-> NoResult]
    /\ comment_list = <<>>
    /\ tree = <<>>
    /\ built = FALSE
    /\ spawned = 0
    /\ rows = <<>>
    /\ listing = [rows |-> <<>>, after_page_param |-> "absent"]
    /\ parsed_stories = <<>>
    /\ parse_state = "no"
    /\ hn_client = [next_page_params |-> <<>>]
    /\ client = [live |-> FALSE, called |-> FALSE, next_page_params |-> <<>>]
    /\ sent = <<>>
    /\ \E p \in 1..MaxPages : app = ListingAtPage(p)
    /\ bg = [u \in AppUnits |-> FreeThread]
    /\ dispatched = 0
    /\ view = NewView

NextPaging ==
    \/ UpdateOnly
    \/ PressTab
    \/ ScrollToBottom
    \/ PressRefresh
    \/ \E u \in AppUnits : ThreadSends(u)
    \/ \E u \in AppUnits : ThreadFinishes(u)

\* The story list and its pages: load more, refresh and tab switches, from
\* any page the list can be at.
SpecPaging == InitPaging /\ [][NextPaging]_vars

NextView ==
    \/ ViewStory
    \/ ViewBack
    \/ ToggleSort
    \/ NextPageButton
    \/ PrevPageButton
    \/ PageKey
    \/ ReceiveComments

\* The comments view: its story, its comments and its page.
SpecView == Init /\ [][NextView]_vars

\* The app where frames keep coming (the loop repaints) and every thread that
\* is running gets to its send, unless it panics, and then to its end.
FairSpecApp ==
    /\ Init
    /\ [][NextApp]_vars
    /\ WF_vars(UpdateOnly)
    /\ \A u \in AppUnits : WF_vars(ThreadSends(u)) /\ WF_vars(ThreadFinishes(u))

-----------------------------------------------------------------------------
(* Properties                                                              *)

\* The background threads of a request kind whose fetch is outstanding.
InFlight(kind) ==
    {u \in AppUnits : bg[u].state = "running" /\ bg[u].request.kind = kind}

\* C13: at most one background unit per request kind is in flight at any
\* time: while a listing fetch is outstanding no second listing unit is
\* started, and while a comment fetch is outstanding no second comment unit.
C13_OneUnitPerKind ==
    \A kind \in {"stories", "comments"} : Cardinality(InFlight(kind)) <= 1

\* C14: no dispatched unit's result is lost: no unit ends without its result
\* reaching the interactive loop, whatever the user did meanwhile.
C14_NoResultLost ==
    \A u \in AppUnits : ~bg[u].lost

\* The frame takes None from the receiver of unit u.
TakesNone(u) ==
    /\ bg[u].message = << [some |-> FALSE, value |-> <<>>] >>
    /\ bg'[u].message = <<>>

\* C15: a failed fetch surfaces as an empty result: in the frame that receives
\* the None of a listing fetch the stories shown become empty, and in the
\* frame that receives the None of a thread fetch the comments shown become
\* empty.
C15_FailedFetchShowsEmpty ==
    [][\A u \in AppUnits :
          /\ (app.stories_receiver = <<u>> /\ TakesNone(u)) => app'.stories = <<>>
          /\ (app.comments_receiver = <<u>> /\ TakesNone(u)) => app'.comments = <<>>]_vars

\* Thread u takes a step of its client call.
Steps(u) == Running(u) /\ pc'[u] # pc[u]

\* Thread u returns from its client call in this step.
Returns(u) == Running(u) /\ pc'[u] = "done"

NetworkPcs == {"fetch_stories", "fetch_comments", "fetch_latest", "fetch_fallback"}

\* The ttl values the validity checks are tried with.
TtlValues == {0, 1, CacheTtlSecs, 2 * CacheTtlSecs}

\* C1: fetch_stories_by_tab_and_page consults and populates the listing cache
\* only for (hot, 1).  A call with any other (tab, page) never takes the cache
\* lock, never changes the cache, and returns only after exactly one listing
\* request, with the parse of that response (or Err), never with cached data.
C1_OnlyHotFirstPageUsesCache ==
    [][\A u \in Units :
          (/\ Steps(u)
           /\ call[u].method = "fetch_stories_by_tab_and_page"
           /\ ~(call[u].tab = "hot" /\ call[u].page = 1))
          => /\ cache'.stories = cache.stories
             /\ cache'.timestamp = cache.timestamp
             /\ lock' = lock
             /\ pc'[u] \in {"fetch_stories", "done"}
             /\ (pc'[u] = "done"
                   => /\ pc[u] = "fetch_stories"
                      /\ requests'[u] = <<"listing">>
                      /\ result'[u] = IF response'[u].sent
                                      THEN Ok(ParseStories(response'[u].body))
                                      ELSE Err)]_vars

\* C1 witness: a (hot, 2) call has returned fetched items while the cache held a
\* valid, different listing.
C1_Witness ==
    \E u \in Units :
        /\ pc[u] = "done"
        /\ call[u].method = "fetch_stories_by_tab_and_page"
        /\ call[u].tab = "hot" /\ call[u].page = 2
        /\ result[u].kind = "Ok"
        /\ requests[u] = <<"listing">>
        /\ cache.stories # <<>>
        /\ now - cache.timestamp < CacheTtlSecs
        /\ result[u].value # cache.stories

\* C2 (as claimed): after a successful forced refresh of (hot, 1) the cache's
\* listing slot holds the freshly fetched items with a reset timestamp.
C2_ForcedRefreshWritesCache ==
    [][\A u \in Units :
          (/\ Returns(u)
           /\ call[u].method = "fetch_fresh_stories_by_tab"
           /\ call[u].tab = "hot"
           /\ result'[u].kind = "Ok")
          => /\ cache'.stories = result'[u].value
             /\ cache'.timestamp = now']_vars

\* C2 (amended): a forced refresh bypasses the cache read and the cache write:
\* fetch_fresh_stories_by_tab never takes the lock, leaves the whole cache as it
\* was, and returns the parse of its one listing response.
C2_ForcedRefreshBypassesCache ==
    [][\A u \in Units :
          (Steps(u) /\ call[u].method = "fetch_fresh_stories_by_tab")
          => /\ cache' = cache
             /\ lock' = lock
             /\ pc'[u] = "done"
             /\ requests'[u] = <<"listing">>
             /\ result'[u] = IF response'[u].sent
                             THEN Ok(ParseStories(response'[u].body))
                             ELSE Err]_vars

\* C2 witness: a forced refresh of the hot tab has returned items that the
\* cache's listing slot does not hold.
C2_Witness ==
    \E u \in Units :
        /\ pc[u] = "done"
        /\ call[u].method = "fetch_fresh_stories_by_tab"
        /\ call[u].tab = "hot"
        /\ result[u].kind = "Ok"
        /\ result[u].value # <<>>
        /\ cache.stories # result[u].value

\* C3 (as claimed): a failed fetch never writes the cache: whenever the cache
\* (listing slot, thread map or a timestamp) changes, the step is the write of a
\* thread whose request was answered with a success status.
C3_FailedFetchNeverWritesCache ==
    [][cache' # cache
          => \E u \in Units :
                /\ Steps(u)
                /\ response[u].sent
                /\ response[u].status = 200]_vars

\* C4 (as claimed): right after update_stories(items), for every items, the
\* validity check with ttl 0 fails and with any ttl above the age succeeds, the
\* stories read being the ones written.
C4_ReadAfterAnyWrite ==
    [][\A u \in Units :
          (Steps(u) /\ pc[u] = "write_stories")
          => /\ ~IsStoriesCacheValid(cache', now', 0)
             /\ \A ttl \in TtlValues :
                   ttl > Elapsed(cache'.timestamp, now')
                   => /\ IsStoriesCacheValid(cache', now', ttl)
                      /\ cache'.stories = fetched[u]]_vars

\* C4 (amended): right after update_stories(items) the validity check with
\* ttl 0 fails; with any ttl above the age it succeeds, the stories read being
\* the ones written, iff items is not empty: an empty listing is never valid.
C4_ReadAfterWrite ==
    [][\A u \in Units :
          (Steps(u) /\ pc[u] = "write_stories")
          => /\ ~IsStoriesCacheValid(cache', now', 0)
             /\ cache'.stories = fetched[u]
             /\ cache'.timestamp = now'
             /\ \A ttl \in TtlValues :
                   ttl > Elapsed(cache'.timestamp, now')
                   => (IsStoriesCacheValid(cache', now', ttl) <=> fetched[u] # <<>>)]_vars

\* C4 witness: a thread has just written a non-empty listing.
C4_Witness ==
    \E u \in Units :
        /\ pc[u] = "done"
        /\ call[u].method = "fetch_stories_by_tab_and_page"
        /\ requests[u] = <<"listing">>
        /\ result[u].kind = "Ok"
        /\ result[u].value # <<>>
        /\ cache.stories = result[u].value
        /\ cache.timestamp = now
        /\ now > 0

\* C5: the thread cache.  The read of fetch_comments returns the stored comments
\* iff an entry exists for the id with age < ttl (and goes on to fetch otherwise);
\* the write upserts that id's entry with the fetched comments and the current
\* time and leaves every other entry and the listing slot as they were.
C5_ThreadCacheReadWrite ==
    [][\A u \in Units :
          LET id == call[u].item_id
              cc == cache.comments_cache
              hit == /\ id \in DOMAIN cc
                     /\ now - cc[id].timestamp < CacheTtlSecs
          IN  /\ (Steps(u) /\ pc[u] = "read_comments")
                 => /\ cache' = cache
                    /\ hit => /\ pc'[u] = "done"
                              /\ result'[u] = Ok(cc[id].comments)
                              /\ requests'[u] = <<>>
                    /\ ~hit => pc'[u] = "fetch_comments"
              /\ (Steps(u) /\ pc[u] = "write_comments")
                 => /\ DOMAIN cache'.comments_cache = DOMAIN cc \cup {id}
                    /\ cache'.comments_cache[id] =
                          [comments |-> fetched[u], timestamp |-> now]
                    /\ \A k \in DOMAIN cc \ {id} : cache'.comments_cache[k] = cc[k]
                    /\ cache'.stories = cache.stories
                    /\ cache'.timestamp = cache.timestamp]_vars

\* C5 witness: a thread has just written one id's entry while the other id's
\* entry, written earlier, is still there.
C5_Witness ==
    \E u \in Units : \E other \in ItemIds :
        /\ pc[u] = "done"
        /\ call[u].method = "fetch_comments"
        /\ requests[u] = <<"item">>
        /\ other # call[u].item_id
        /\ DOMAIN cache.comments_cache = {other, call[u].item_id}
        /\ cache.comments_cache[call[u].item_id].timestamp = now
        /\ cache.comments_cache[other].timestamp < now
        /\ cache.comments_cache[other].comments # <<>>

\* C6: no thread is at a network request while it holds the cache mutex.
C6_NoLockAcrossNetwork ==
    \A u \in Units : pc[u] \in NetworkPcs => lock # u

\* C6 witness: one thread of fetch_comments is at its request, past its cache
\* read, while the other thread holds the mutex.
C6_Witness ==
    \E u \in Units : \E v \in Units \ {u} :
        /\ pc[u] = "fetch_comments"
        /\ call[u].method = "fetch_comments"
        /\ lock = v

C8_LatestThenFallback ==
    [][\A u \in Units :
          /\ (Steps(u) /\ pc[u] = "fetch_latest")
             => /\ call[u].method = "fetch_latest_comments"
                /\ requests'[u] = <<"latest">>
                /\ cache' = cache
                /\ LET r == response'[u]
                       nodes == ParseComments(r.body)
                   IN  /\ (r.sent /\ nodes # <<>>)
                          => (pc'[u] = "done" /\ result'[u] = Ok(nodes))
                       /\ (r.sent /\ nodes = <<>>)
                          => pc'[u] = "fetch_fallback"
                       /\ ~r.sent => (pc'[u] = "done" /\ result'[u] = Err)
          /\ (Steps(u) /\ pc[u] = "fetch_fallback")
             => /\ call[u].method = "fetch_latest_comments"
                /\ requests'[u] = <<"latest", "item">>
                /\ response[u].sent
                /\ ParseComments(response[u].body) = <<>>
                /\ cache' = cache
                /\ pc'[u] = "done"
                /\ response'[u].sent
                   => result'[u] = Ok(ParseComments(response'[u].body))
          /\ (Steps(u) /\ call[u].method = "fetch_latest_comments")
             => pc[u] \in {"fetch_latest", "fetch_fallback"}]_vars

\* C8 witness: the latest endpoint gave no comment, the standard endpoint was
\* requested and gave none either, and the call returned Ok with no comments.
C8_Witness ==
    \E u \in Units :
        /\ pc[u] = "done"
        /\ call[u].method = "fetch_latest_comments"
        /\ requests[u] = <<"latest", "item">>
        /\ result[u] = Ok(<<>>)

-----------------------------------------------------------------------------
(* Properties of the tree builder                                          *)

RECURSIVE Preorder(_, _)
\* The pre-order traversal of a forest, recording <<depth, id>> of each node.
Preorder(nodes, depth) ==
    IF nodes = <<>> THEN <<>>
    ELSE <<<<depth, nodes[1].id>>>>
         \o Preorder(nodes[1].children, depth + 1)
         \o Preorder(Tail(nodes), depth)

\* The flat list as its <<level, id>> pairs.
LevelsAndIds(list) == [i \in 1..Len(list) |-> <<list[i][1], list[i][2].id>>]

\* A well-formed flat list: levels are nesting depths (>= 0), the first is 0 and
\* each is at most one greater than the one before it.
WellFormed(list) ==
    /\ \A i \in 1..Len(list) : list[i][1] >= 0
    /\ list # <<>> => list[1][1] = 0
    /\ \A i \in 2..Len(list) : list[i][1] <= list[i - 1][1] + 1

\* C9: tree round trip.  For a well-formed flat list the pre-order traversal of
\* the built tree, recording each node's depth, is the list of (level, id) pairs.
C9_TreeRoundTrip ==
    (built /\ WellFormed(comment_list))
        => Preorder(tree, 0) = LevelsAndIds(comment_list)

\* C9 witness: [(0,1),(1,2),(2,3),(1,4),(0,5)] has been built into two roots,
\* 1 (children 2, with child 3, and 4) and 5.
C9_Witness ==
    /\ built
    /\ LevelsAndIds(comment_list) = <<<<0, 1>>, <<1, 2>>, <<2, 3>>, <<1, 4>>, <<0, 5>>>>
    /\ tree = << [id |-> 1, level |-> 0, children |->
                    << [id |-> 2, level |-> 1, children |->
                          << [id |-> 3, level |-> 2, children |-> <<>>] >>],
                       [id |-> 4, level |-> 1, children |-> <<>>] >>],
                 [id |-> 5, level |-> 0, children |-> <<>>] >>

IsLevelZero(entry) == entry[1] = 0

RECURSIVE ChildrenLinked(_)
\* In a forest: every child is one level below its parent and siblings are in
\* input order (ids are input positions), at every depth.
ChildrenLinked(nodes) ==
    /\ \A i \in 1..Len(nodes) : \A j \in 1..Len(nodes) :
          i < j => nodes[i].id < nodes[j].id
    /\ \A i \in 1..Len(nodes) :
          /\ \A k \in 1..Len(nodes[i].children) :
                /\ nodes[i].children[k].level = nodes[i].level + 1
                /\ nodes[i].children[k].id > nodes[i].id
          /\ ChildrenLinked(nodes[i].children)

\* C10: for any flat list, the roots of the built tree are exactly the list's
\* level-0 nodes, in input order, every child's level is its parent's level + 1,
\* and siblings are in input order.
C10_RootsAndChildLevels ==
    built
        => /\ [i \in 1..Len(tree) |-> <<tree[i].level, tree[i].id>>]
                = LevelsAndIds(SelectSeq(comment_list, IsLevelZero))
           /\ ChildrenLinked(tree)

\* C10 witness: a list that is not well-formed has been built into a tree with
\* at least two roots, a grandchild, and a node left out.
C10_Witness ==
    /\ built
    /\ ~WellFormed(comment_list)
    /\ Len(tree) >= 2
    /\ \E i \in 1..Len(tree) :
          /\ tree[i].children # <<>>
          /\ tree[i].children[1].children # <<>>
    /\ Len(Preorder(tree, 0)) < Len(comment_list)

\* The ids of the nodes of a forest.
KeptIds(nodes) ==
    {Preorder(nodes, 0)[k][2] : k \in 1..Len(Preorder(nodes, 0))}

\* The position of the nearest node before position i that is in the output
\* (ids are input positions), 0 if there is none.
NearestKept(kept, i) ==
    IF \E j \in kept : j < i
    THEN CHOOSE j \in kept : j < i /\ \A k \in kept : k < i => k <= j
    ELSE 0

\* Position i is more than one level deeper than the nearest node before it that
\* could take it as a child (the forest's virtual root, one level above the
\* roots, if there is none).
Gapped(list, kept, i) ==
    LET j == NearestKept(kept, i)
    IN  IF j = 0 THEN list[i][1] > 0 ELSE list[i][1] > list[j][1] + 1

\* Position i is not a root and its only possible parent, the nearest shallower
\* node before it, is one level above it and is not in the output.
Orphaned(list, kept, i) ==
    \E j \in 1..(i - 1) :
        /\ list[i][1] > 0
        /\ list[j][1] = list[i][1] - 1
        /\ \A k \in (j + 1)..(i - 1) : list[k][1] >= list[i][1]
        /\ j \notin kept

\* The flat list without the positions that are not in `kept`.
Restrict(list, kept) ==
    LET IsKept(entry) == entry[2].id \in kept
    IN  SelectSeq(list, IsKept)

\* C11: a node more than one level deeper than its nearest preceding candidate
\* parent is dropped without an error, and so is a node whose only possible parent
\* was dropped; the output is the tree of the input without the dropped nodes (its
\* pre-order traversal is the remaining list), and, levels being nesting depths,
\* no other node is dropped.
C11_GappedNodesDropped ==
    built
        => LET kept == KeptIds(tree)
               all == 1..Len(comment_list)
           IN  /\ kept \subseteq all
               /\ \A i \in all : Gapped(comment_list, kept, i) => i \notin kept
               /\ \A i \in all : Orphaned(comment_list, kept, i) => i \notin kept
               /\ Preorder(tree, 0) = LevelsAndIds(Restrict(comment_list, kept))
               /\ (\A i \in all : comment_list[i][1] >= 0)
                     => \A i \in all \ kept :
                           \/ Gapped(comment_list, kept, i)
                           \/ Orphaned(comment_list, kept, i)

\* C11 witness: in [(0,1),(2,2),(3,3),(1,4),(2,5)] node 2 jumps two levels and is
\* dropped with its child 3, while 4 is attached under 1 and 5 under 4.
C11_Witness ==
    /\ built
    /\ LevelsAndIds(comment_list) = <<<<0, 1>>, <<2, 2>>, <<3, 3>>, <<1, 4>>, <<2, 5>>>>
    /\ tree = << [id |-> 1, level |-> 0, children |->
                    << [id |-> 4, level |-> 1, children |->
                          << [id |-> 5, level |-> 2, children |-> <<>>] >>] >>] >>

-----------------------------------------------------------------------------
(* Properties of parse_comments on pages with repeated ids                 *)

\* The number of nodes of a forest, at any depth, that carry id x.
NodeCount(nodes, x) ==
    Cardinality({k \in 1..Len(Preorder(nodes, 0)) : Preorder(nodes, 0)[k][2] = x})

RECURSIVE NodesOf(_)
\* The (id, level) pairs of the nodes of a forest, at any depth.
NodesOf(nodes) ==
    IF nodes = <<>> THEN {}
    ELSE {<<nodes[1].id, nodes[1].level>>}
         \cup NodesOf(nodes[1].children) \cup NodesOf(Tail(nodes))

\* Row i is the first row of the page with its id.
IsFirstOccurrence(rs, i) == \A j \in 1..(i - 1) : rs[j].id # rs[i].id

RECURSIVE FirstOccurrences(_, _)
\* The rows of the page from row i on that are the first with their id.
FirstOccurrences(rs, i) ==
    IF i > Len(rs) THEN <<>>
    ELSE (IF IsFirstOccurrence(rs, i) THEN <<rs[i]>> ELSE <<>>)
         \o FirstOccurrences(rs, i + 1)

\* The ids that occur on more than one row of the page.
RepeatedIds(rs) ==
    {rs[i].id : i \in {i \in 1..Len(rs) : ~IsFirstOccurrence(rs, i)}}

\* C12 as stated: for any rows, an id that occurs more than once has exactly one
\* node in the thread result, carrying the level of its first occurrence.
C12_RepeatedIdYieldsOneNode ==
    built
        => \A x \in RepeatedIds(rows) :
              /\ NodeCount(tree, x) = 1
              /\ \E i \in 1..Len(rows) :
                    /\ rows[i].id = x
                    /\ IsFirstOccurrence(rows, i)
                    /\ <<x, rows[i].indent>> \in NodesOf(tree)

\* C12, amended: for any rows, the thread result has at most one node per id; the
\* flat list keeps exactly the first row of every id, in page order, with that
\* row's data; a node of the result carries the data of the first row of its id,
\* never of a later one; and every id has its node when the rows kept form a
\* well-formed list.
C12_FirstOccurrenceKept ==
    built
        => LET first == FirstOccurrences(rows, 1)
           IN  /\ \A x \in CommentIds : NodeCount(tree, x) <= 1
               /\ comment_list
                    = [k \in 1..Len(first) |->
                          <<first[k].indent,
                            [id |-> first[k].id, level |-> first[k].indent,
                             children |-> <<>>]>>]
               /\ \A n \in NodesOf(tree) :
                     \E i \in 1..Len(rows) :
                        /\ IsFirstOccurrence(rows, i)
                        /\ rows[i].id = n[1]
                        /\ rows[i].indent = n[2]
               /\ WellFormed(comment_list)
                     => \A i \in 1..Len(rows) : NodeCount(tree, rows[i].id) = 1

\* C12 witness: the page [(c1,0),(c2,1),(c1,1)] repeats c1 on a row that is not
\* adjacent to the first; the result is c1 at level 0 with the child c2.
C12_Witness ==
    /\ built
    /\ rows = << [id |-> "c1", indent |-> 0], [id |-> "c2", indent |-> 1],
                 [id |-> "c1", indent |-> 1] >>
    /\ tree = << [id |-> "c1", level |-> 0, children |->
                    << [id |-> "c2", level |-> 1, children |-> <<>>] >>] >>

-----------------------------------------------------------------------------
(* Properties of the thread cache's contents                               *)

\* C20: the thread cache has no eviction.  No step of any thread and no passing
\* of time removes an id from the map, and a write leaves the id it writes in the
\* map; so every id ever written is still present, expired or not.
C20_NoEviction ==
    [][/\ DOMAIN cache.comments_cache \subseteq DOMAIN cache'.comments_cache
       /\ \A u \in Units :
             (Steps(u) /\ pc[u] = "write_comments")
                => call[u].item_id \in DOMAIN cache'.comments_cache]_vars

\* C20 witness: an entry whose TTL has expired is still in the map after a later
\* write of another id.
C20_Witness ==
    \E u \in Units : \E other \in ItemIds :
        /\ pc[u] = "done"
        /\ call[u].method = "fetch_comments"
        /\ requests[u] = <<"item">>
        /\ other # call[u].item_id
        /\ DOMAIN cache.comments_cache = {other, call[u].item_id}
        /\ cache.comments_cache[call[u].item_id].timestamp = now
        /\ now - cache.comments_cache[other].timestamp >= CacheTtlSecs

-----------------------------------------------------------------------------
(* Properties of parse_stories                                             *)

\* C17 as stated: an item row without a metadata row is emitted with score 0, an
\* empty author, an empty age and comment count 0, and every other row has the
\* fields of its own metadata row.
C17_MissingMetadataIsLocal ==
    parse_state = "ok"
        => /\ Len(parsed_stories) = Len(listing.rows)
           /\ \A i \in 1..Len(listing.rows) :
                 LET own == listing.rows[i].subtext
                 IN  /\ own = <<>>
                        => /\ parsed_stories[i].score = 0
                           /\ parsed_stories[i].by = <<>>
                           /\ parsed_stories[i].time_ago = <<>>
                           /\ parsed_stories[i].comments_count = 0
                     /\ own # <<>>
                        => /\ parsed_stories[i].by
                                 = (IF own[1].hnuser = <<>> THEN <<>>
                                    ELSE own[1].hnuser[1])
                           /\ (own[1].score # <<>>) = (parsed_stories[i].score = 10)
                           /\ parsed_stories[i].time_ago = AgeLink

\* C18 as stated: for markup with N item rows parse_stories returns exactly N
\* records, in document order, the i-th with original_index i (0-based).
C18_OneRecordPerRow ==
    parse_state # "no"
        => /\ parse_state = "ok"
           /\ Len(parsed_stories) = Len(listing.rows)
           /\ \A i \in 1..Len(listing.rows) :
                 /\ parsed_stories[i].id = listing.rows[i].id
                 /\ parsed_stories[i].original_index = i - 1

-----------------------------------------------------------------------------
(* Properties of the 'new' tab's pagination                                *)

\* C16 as stated: a request for a page after the first of the 'new' tab forwards
\* the (next, n) pair extracted from the most recent earlier 'new' response,
\* whenever there is one.
C16_ForwardsLatestPair ==
    \A k \in 1..Len(sent) :
        LET earlier == {j \in 1..(k - 1) :
                           sent[j].tab = "new" /\ sent[j].extracted # <<>>}
            latest == CHOOSE j \in earlier : \A i \in earlier : i <= j
        IN  (sent[k].tab = "new" /\ sent[k].page > 1 /\ earlier # {})
               => sent[k].url.query
                     = <<"next", sent[latest].extracted[1][1],
                         "n", sent[latest].extracted[1][2]>>

\* The listing slot was written by a thread: the constructor's slot is empty
\* and stamped with time 0.
ListingWritten == cache.stories # <<>> \/ cache.timestamp > 0

\* Thread u is at the read of a non-forced call, under the lock.
ReadsListing(u) == Steps(u) /\ pc[u] = "read_stories"
ReadsThread(u) == Steps(u) /\ pc[u] = "read_comments"

\* C21 (as claimed): the cache is one state shared by all threads.  Any thread
\* that reads the listing slot less than the ttl after a thread's write of it,
\* or a thread entry less than the ttl after a thread's write of it, returns
\* the payload written, without a request.
C21_ReadsEarlierWrite ==
    [][\A u \in Units :
          /\ (/\ ReadsListing(u)
              /\ ListingWritten
              /\ now - cache.timestamp < CacheTtlSecs)
             => /\ pc'[u] = "done"
                /\ result'[u] = Ok(cache.stories)
                /\ requests'[u] = <<>>
          /\ (/\ ReadsThread(u)
              /\ call[u].item_id \in DOMAIN cache.comments_cache
              /\ now - cache.comments_cache[call[u].item_id].timestamp < CacheTtlSecs)
             => /\ pc'[u] = "done"
                /\ result'[u] = Ok(cache.comments_cache[call[u].item_id].comments)
                /\ requests'[u] = <<>>]_vars

\* C21 (amended): as claimed for the thread entries, empty or not; for the
\* listing slot only when the listing written has at least one item (an empty
\* listing written is fetched again by the next reader).  The payload is the
\* one of the latest write, whichever thread made it.
C21_ReadsLatestWrite ==
    [][\A u \in Units :
          /\ (ReadsListing(u) /\ now - cache.timestamp < CacheTtlSecs)
             => IF cache.stories # <<>>
                THEN /\ pc'[u] = "done"
                     /\ result'[u] = Ok(cache.stories)
                     /\ requests'[u] = <<>>
                ELSE /\ pc'[u] = "fetch_stories"
                     /\ result'[u] = NoResult
          /\ (/\ ReadsThread(u)
              /\ call[u].item_id \in DOMAIN cache.comments_cache
              /\ now - cache.comments_cache[call[u].item_id].timestamp < CacheTtlSecs)
             => /\ pc'[u] = "done"
                /\ result'[u] = Ok(cache.comments_cache[call[u].item_id].comments)
                /\ requests'[u] = <<>>]_vars

\* C21 witness: a call has returned a thread entry from the cache without a
\* request of its own (the entry was written by an earlier call, at an earlier
\* time), while the other thread is in a call of its own.
C21_Witness ==
    \E u \in Units : \E v \in Units \ {u} :
        /\ pc[u] = "done"
        /\ call[u].method = "fetch_comments"
        /\ requests[u] = <<>>
        /\ result[u] = Ok(cache.comments_cache[call[u].item_id].comments)
        /\ Running(v)
        /\ now > cache.comments_cache[call[u].item_id].timestamp

\* C22: no double attachment.  For any flat list, well-formed or not, the node
\* of each input position occurs at most once in the built tree, counting roots
\* and children at every depth, and every node of the tree is an input position.
C22_NoDoubleAttachment ==
    built
    => /\ \A i \in 1..Len(comment_list) : NodeCount(tree, i) <= 1
       /\ Len(Preorder(tree, 0)) <= Len(comment_list)
       /\ KeptIds(tree) \subseteq 1..Len(comment_list)

\* C22 witness: an ill-formed list (a level skipped) of which the tree keeps a
\* second root with a child after the root whose subtree had the gap.
C22_Witness ==
    /\ built
    /\ ~WellFormed(comment_list)
    /\ Len(comment_list) = 5
    /\ Len(tree) = 2
    /\ Len(tree[2].children) = 1
    /\ Len(Preorder(tree, 0)) = 4

\* The frame takes Some(items) from the stories receiver, sent by thread u.
AppliesListing(u) ==
    /\ app.stories_receiver = <<u>>
    /\ bg[u].message # <<>>
    /\ bg[u].message[1].some
    /\ bg'[u].message = <<>>

\* The stories of a listing result that the list does not hold yet.
NotYetListed(items) ==
    SelectSeq(items, LAMBDA story :
        \A i \in 1..Len(app.stories) : app.stories[i] # story)

\* C23: the result of a fresh listing load (page 1: first load, tab switch,
\* refresh) replaces the story list, also when a load-more was outstanding at
\* its dispatch; only the result of a load-more (page 2 and up) is appended.
C23_FreshLoadReplaces ==
    [][\A u \in AppUnits :
          AppliesListing(u)
          => IF bg[u].request.page = 1
             THEN app'.stories = bg[u].message[1].value
             ELSE app'.stories = app.stories \o NotYetListed(bg[u].message[1].value)]_vars

\* The next frame would spawn a thread beyond the bound of the model.
BeyondDispatchBound == ~Update(World).ok

\* C24: every load terminates for the interactive loop: once loading, or
\* loading_more_stories, is set it is eventually cleared, whether the thread
\* sends a result, sends a failure, or ends without sending anything.
C24_LoadingFlagsCleared ==
    /\ app.loading ~> (~app.loading \/ BeyondDispatchBound)
    /\ app.loading_more_stories ~> (~app.loading_more_stories \/ BeyondDispatchBound)

\* The frame takes Some(comments) from the comments receiver, sent by thread u.
AppliesComments(u) ==
    /\ app.comments_receiver = <<u>>
    /\ bg[u].message # <<>>
    /\ bg[u].message[1].some
    /\ bg'[u].message = <<>>

\* C25: whenever a comment result is applied while a story is selected, the
\* comments applied were fetched for the story that is selected.
C25_CommentsOfSelectedStory ==
    [][\A u \in AppUnits :
          (AppliesComments(u) /\ app'.selected_story # <<>>)
          => /\ app'.selected_story = bg[u].request.story
             /\ app'.comments = bg[u].message[1].value]_vars

\* No load is outstanding: no flag is set, no thread is fetching and no
\* message waits in a channel.
NoLoadOutstanding ==
    /\ ~app.loading
    /\ ~app.loading_more_stories
    /\ \A u \in AppUnits : bg[u].state # "running" /\ bg[u].message = <<>>

\* The stories shown that a listing request delivered (not the debug stories
\* of the constructor, not the test item).
FetchedStoriesShown ==
    {app.stories[i] : i \in {j \in 1..Len(app.stories) : app.stories[j].tab \in Tabs}}

\* C26: after a tab switch, once no load is outstanding, the stories shown
\* were fetched for the current tab: no story fetched for another tab is in
\* the list.
C26_ListOfCurrentTab ==
    NoLoadOutstanding
    => \A story \in FetchedStoriesShown : story.tab = app.current_tab

\* A thread is shown: a story is selected and no load is outstanding.
ThreadShown == view.selected_story # <<>> /\ ~view.loading

\* C27: the comment page index stays in range: whenever a thread is shown,
\* comments_page * comments_per_page <= the number of top-level comments, so
\* the slice of the current page is well defined, also after a reload that
\* delivers fewer comments or fails.
C27_CommentsPageInRange ==
    ThreadShown
    => /\ view.comments_page * CommentsPerPage <= Len(view.comments)
       /\ ~PageSlicePanics(view)

\* A step in which a thread is spawned for a load-more request.
LoadMoreDispatched ==
    \E u \in AppUnits :
        /\ bg[u].state # "running"
        /\ bg'[u].state = "running"
        /\ bg'[u].request.method = "fetch_stories_by_tab_and_page"

\* A frame in which load_more_stories is called at page MAX_PAGES with no load
\* going on and the end not reached.
LoadMoreAtLastPage ==
    /\ ScrollToBottom
    /\ Update(World).app.current_page = MaxPages
    /\ ~Update(World).app.loading
    /\ ~Update(World).app.loading_more_stories
    /\ ~Update(World).app.end_of_stories

\* C28: load-more is bounded to 5 pages: current_page is always within 1..5; a
\* load-more request at page 5 dispatches no thread and sets end_of_stories;
\* and no load-more thread is dispatched while end_of_stories is set.
C28_LoadMoreBounded ==
    /\ [](app.current_page \in 1..MaxPages)
    /\ [][LoadMoreAtLastPage
            => /\ dispatched' = dispatched
               /\ \A u \in AppUnits : bg'[u].state = "running" => bg[u].state = "running"
               /\ app'.end_of_stories
               /\ app'.current_page = MaxPages]_vars
    /\ [][LoadMoreDispatched => ~app.end_of_stories]_vars

\* C28 witness: load_more_stories was called at page 5: the end is marked and
\* no thread was ever spawned.
C28_Witness ==
    /\ app.current_page = MaxPages
    /\ app.end_of_stories
    /\ dispatched = 0

\* Thread u's read finds a valid entry: a cache hit.
ListingHit(u) ==
    ReadsListing(u) /\ IsStoriesCacheValid(cache, now, CacheTtlSecs)
ThreadHit(u) ==
    ReadsThread(u) /\ IsCommentsCacheValid(cache, call[u].item_id, now, CacheTtlSecs)

\* C29: a cache hit has no side effects.  A non-forced listing call for
\* ("hot", 1) or thread call that finds a valid entry returns the stored
\* payload, sends no request and leaves the whole cache (payloads and
\* timestamps) as it was; and the cache changes only in the write step of a
\* call that has fetched, so no read extends an entry's validity.
C29_CacheHitNoSideEffects ==
    [][/\ \A u \in Units :
            /\ ListingHit(u)
               => /\ pc'[u] = "done"
                  /\ result'[u] = Ok(cache.stories)
                  /\ requests'[u] = <<>>
                  /\ cache' = cache
            /\ ThreadHit(u)
               => /\ pc'[u] = "done"
                  /\ result'[u] = Ok(GetCachedComments(cache, call[u].item_id))
                  /\ requests'[u] = <<>>
                  /\ cache' = cache
       /\ cache' # cache
          => \E u \in Units :
                /\ pc[u] \in {"write_stories", "write_comments"}
                /\ pc'[u] = "done"
                /\ requests[u] # <<>>
                /\ result'[u] = Ok(fetched[u])]_vars

\* C29 witness: a listing call has returned the stored, non-empty listing
\* without a request, some time after the listing was stored, and the slot
\* still bears the time of its write.
C29_Witness ==
    \E u \in Units :
        /\ pc[u] = "done"
        /\ call[u].method = "fetch_stories_by_tab_and_page"
        /\ requests[u] = <<>>
        /\ cache.stories # <<>>
        /\ result[u] = Ok(cache.stories)
        /\ cache.timestamp < now

\* A frame with no input takes the None that thread u sent for a load-more
\* request.
LoadMoreFails(u) ==
    /\ UpdateOnly
    /\ app.stories_receiver = <<u>>
    /\ TakesNone(u)
    /\ bg[u].request.method = "fetch_stories_by_tab_and_page"
    /\ app.loading_more_stories

\* C30: a failed load-more leaves the listing state as it was before the
\* request: in the frame that receives the None of a load-more for page p the
\* story list and end_of_stories stay as they are, current_page is p - 1 again
\* (so that the next load-more asks for page p again), and both loading flags
\* are cleared.
C30_FailedLoadMoreRestores ==
    [][\A u \in AppUnits :
          LoadMoreFails(u)
          => /\ app'.stories = app.stories
             /\ app'.end_of_stories = app.end_of_stories
             /\ app'.current_page = bg[u].request.page - 1
             /\ ~app'.loading
             /\ ~app'.loading_more_stories]_vars

====
